---- MODULE Spec2Model ----
(***************************************************************************)
(* Demand forecasting of the SAAI backend: the weighted-average formula,   *)
(* the alert classification, the on-demand prediction handler with its     *)
(* cache, the per-tenant batch worker and the sale registration handler.   *)
(*                                                                         *)
(* Time is the wall clock in hours (reloj).  Dates are day numbers, the    *)
(* weekday of day d is d % 7.  Real numbers are exact rationals over       *)
(* arbitrary-precision naturals (the code uses binary floating point);     *)
(* confidences are kept in hundredths (92 stands for 0.92).                *)
(***************************************************************************)
EXTENDS Integers, Sequences, FiniteSets, Bags, TLC

(***************************************************************************)
(* Program constants                                                       *)
(***************************************************************************)
MIN_VENTAS_HOLT_WINTERS == 30
MIN_REGISTROS_ENTRENAMIENTO == 30
MIN_VENTAS_PREDICCION == 5
DIAS_HISTORICO == 90
FORECAST_DAYS == 7
CACHE_TTL_HORAS == 24
PREDICCIONES_TTL_HORAS == 36
CONFIANZA_HOLT_WINTERS == 92
PERU_UTC_OFFSET == 5

(***************************************************************************)
(* Bounds of the model                                                     *)
(***************************************************************************)
MaxCantidad == 4
MaxRegistros == 31
MaxDiaPuro == 8
MaxLlamadas == 2

(***************************************************************************)
(* Arbitrary-precision naturals: little-endian sequences of limbs.         *)
(***************************************************************************)
Base == 10 * 10 * 10 * 10

BigLimb(a, i) == IF i <= Len(a) THEN a[i] ELSE 0

RECURSIVE BigTop(_, _)
BigTop(a, n) == IF n > 1 /\ a[n] = 0 THEN BigTop(a, n - 1) ELSE n

BigNorm(a) == SubSeq(a, 1, BigTop(a, Len(a)))

RECURSIVE BigCarryIn(_, _)
BigCarryIn(v, i) == IF i = 1 THEN 0 ELSE (v[i - 1] + BigCarryIn(v, i - 1)) \div Base

BigPropagate(v) ==
    LET n == Len(v)
        c == [i \in 1..(n + 1) |-> BigCarryIn(v, i)]
    IN BigNorm([i \in 1..(n + 1) |-> IF i <= n THEN (v[i] + c[i]) % Base ELSE c[i]])

BigOfInt(k) == BigPropagate(<<k>>)

BigIsZero(a) == a = <<0>>

BigAdd(a, b) ==
    IF BigIsZero(a) THEN b
    ELSE IF BigIsZero(b) THEN a
    ELSE LET n == IF Len(a) > Len(b) THEN Len(a) ELSE Len(b)
         IN BigPropagate([i \in 1..n |-> BigLimb(a, i) + BigLimb(b, i)])

BigMulSmall(a, k) ==
    IF BigIsZero(a) \/ k = 0 THEN <<0>>
    ELSE BigPropagate([i \in 1..Len(a) |-> a[i] * k])

BigShift(a, s) == IF a = <<0>> THEN a ELSE [i \in 1..s |-> 0] \o a

RECURSIVE BigSum(_, _, _)
BigSum(s, lo, hi) ==
    IF lo > hi THEN <<0>>
    ELSE IF lo = hi THEN s[lo]
    ELSE LET mid == (lo + hi) \div 2
         IN BigAdd(BigSum(s, lo, mid), BigSum(s, mid + 1, hi))

BigMul(a, b) ==
    IF BigIsZero(a) \/ BigIsZero(b) THEN <<0>>
    ELSE LET rows == [j \in 1..Len(b) |-> BigShift(BigMulSmall(a, b[j]), j - 1)]
         IN BigSum(rows, 1, Len(b))

RECURSIVE BigCmpAt(_, _, _)
BigCmpAt(a, b, i) ==
    IF i = 0 THEN 0
    ELSE IF a[i] < b[i] THEN -1
    ELSE IF a[i] > b[i] THEN 1
    ELSE BigCmpAt(a, b, i - 1)

BigCmp(a, b) ==
    IF Len(a) < Len(b) THEN -1
    ELSE IF Len(a) > Len(b) THEN 1
    ELSE BigCmpAt(a, b, Len(a))

RECURSIVE BigPow(_, _)
BigPow(k, e) ==
    IF e = 0 THEN <<1>>
    ELSE LET h == BigPow(k, e \div 2)
             h2 == BigMul(h, h)
         IN IF e % 2 = 0 THEN h2 ELSE BigMulSmall(h2, k)

(***************************************************************************)
(* Exact non-negative rationals.  Numerator and denominator are kept as    *)
(* sequences of factors; a factor present on both sides cancels.           *)
(***************************************************************************)
RECURSIVE BigProd(_, _)
BigProd(fs, i) == IF i = 0 THEN <<1>> ELSE BigMul(BigProd(fs, i - 1), fs[i])

SinUnos(fs) == SelectSeq(fs, LAMBDA f : f # <<1>>)

Quitar(fs, j) == SubSeq(fs, 1, j - 1) \o SubSeq(fs, j + 1, Len(fs))

\* the factors of ns that have no partner in ds, then the rest of ds
RECURSIVE Cancelar(_, _, _)
Cancelar(ns, ds, acc) ==
    IF ns = <<>> THEN [num |-> acc, den |-> ds]
    ELSE IF \E j \in 1..Len(ds) : ds[j] = Head(ns)
         THEN Cancelar(Tail(ns), Quitar(ds, CHOOSE j \in 1..Len(ds) : ds[j] = Head(ns)), acc)
         ELSE Cancelar(Tail(ns), ds, Append(acc, Head(ns)))

Rat(ns, ds) ==
    IF \E i \in 1..Len(ns) : BigIsZero(ns[i]) THEN [num |-> << <<0>> >>, den |-> <<>>]
    ELSE Cancelar(SinUnos(ns), SinUnos(ds), <<>>)

RatOfInt(k) == Rat(<<BigOfInt(k)>>, <<>>)

RatOfFrac(n, d) == Rat(<<BigOfInt(n)>>, <<BigOfInt(d)>>)

RatNum(x) == BigProd(x.num, Len(x.num))

RatDen(x) == BigProd(x.den, Len(x.den))

RatIsPos(x) == ~BigIsZero(RatNum(x))

RatMul(x, y) == Rat(x.num \o y.num, x.den \o y.den)

RatDiv(x, y) == Rat(x.num \o y.den, x.den \o y.num)

RatAdd(x, y) ==
    IF x.den = y.den THEN Rat(<<BigAdd(RatNum(x), RatNum(y))>>, x.den)
    ELSE
    LET soloY == Cancelar(y.den, x.den, <<>>).num
        soloX == Cancelar(x.den, y.den, <<>>).num
    IN Rat(<<BigAdd(BigMul(RatNum(x), BigProd(soloY, Len(soloY))),
                    BigMul(RatNum(y), BigProd(soloX, Len(soloX))))>>,
           x.den \o soloY)

RECURSIVE FloorFrom(_, _, _)
FloorFrom(n, d, k) ==
    IF BigCmp(n, BigMulSmall(d, k + 1)) < 0 THEN k ELSE FloorFrom(n, d, k + 1)

\* Python's round(x) on a non-negative number: nearest integer, ties to even
RoundHalfEven(x) ==
    LET n == RatNum(x)
        d == RatDen(x)
        k == FloorFrom(n, d, 0)
        c == BigCmp(BigMulSmall(n, 2), BigMulSmall(d, 2 * k + 1))
    IN IF c < 0 THEN k
       ELSE IF c > 0 THEN k + 1
       ELSE IF k % 2 = 0 THEN k ELSE k + 1

\* the value without the floor
MaxSinPiso(a, b) == b

Max(a, b) == IF a >= b THEN a ELSE b

Min(a, b) == IF a <= b THEN a ELSE b

(***************************************************************************)
(* Clock and calendar                                                      *)
(***************************************************************************)
\* datetime.now(): the naive local date of the runtime
FechaLocal(t) == t \div 24

\* obtener_solo_fecha_peru: the calendar date at UTC-5
obtener_solo_fecha_peru(t) == (t - PERU_UTC_OFFSET) \div 24

\* fecha.day in place of fecha.weekday() (months of 30 days)
WeekdayDiaDelMes(d) == d % 30

\* datetime.weekday()
Weekday(d) == d % 7

(***************************************************************************)
(* calcular_prediccion_simple: weighted average with exponential decay and *)
(* day-of-week seasonality.  A sale record is                              *)
(* [cantidad_vendida |-> q, fecha_venta |-> d]; fecha_venta = -1 stands    *)
(* for a date string that datetime.fromisoformat rejects.                  *)
(***************************************************************************)
FECHA_INVALIDA == -1

\* an exception raised by a function, as a value
EsError(r) == "error" \in DOMAIN r

\* sorted(..., key = fecha, reverse = True): stable, most recent first
OrdenarDesc(v) ==
    LET n == Len(v)
        pos(i) == 1 + Cardinality({j \in 1..n :
                        \/ v[j].fecha_venta > v[i].fecha_venta
                        \/ (v[j].fecha_venta = v[i].fecha_venta /\ j < i)})
    IN [k \in 1..n |-> v[CHOOSE i \in 1..n : pos(i) = k]]

\* 0.9 ** i, as a numerator over the common denominator 10 ** (n - 1)
Peso(i, n) == BigMul(BigPow(9, i), BigPow(10, n - 1 - i))

SumaPonderada(vo) ==
    LET n == Len(vo)
    IN BigSum([i \in 1..n |-> BigMulSmall(Peso(i - 1, n), vo[i].cantidad_vendida)], 1, n)

SumaPesos(vo) ==
    LET n == Len(vo)
    IN BigSum([i \in 1..n |-> Peso(i - 1, n)], 1, n)

\* the weighted sum not divided by the sum of the weights
DemandaBaseSinNormalizar(vo) ==
    Rat(<<SumaPonderada(vo)>>, <<BigPow(10, Len(vo) - 1)>>)

DemandaBase(vo) ==
    LET sp == SumaPonderada(vo)
        sw == SumaPesos(vo)
    IN IF ~BigIsZero(sw) THEN Rat(<<sp>>, <<sw>>) ELSE RatOfInt(0)

RECURSIVE SumaCantidades(_, _, _)
SumaCantidades(vo, dia, i) ==
    IF i = 0 THEN 0
    ELSE (IF Weekday(vo[i].fecha_venta) = dia THEN vo[i].cantidad_vendida ELSE 0)
         + SumaCantidades(vo, dia, i - 1)

VentasPorDia(vo, dia) == {i \in 1..Len(vo) : Weekday(vo[i].fecha_venta) = dia}

\* a weekday without records taken as a day without demand
FactorDiaSinDatosCero(vo, base, dia) ==
    LET obs == VentasPorDia(vo, dia)
    IN IF obs # {}
       THEN LET promedio_dia == RatOfFrac(SumaCantidades(vo, dia, Len(vo)), Cardinality(obs))
            IN IF RatIsPos(base) THEN RatDiv(promedio_dia, base) ELSE RatOfInt(1)
       ELSE RatOfInt(0)

FactorDia(vo, base, dia) ==
    LET obs == VentasPorDia(vo, dia)
    IN IF obs # {}
       THEN LET promedio_dia == RatOfFrac(SumaCantidades(vo, dia, Len(vo)), Cardinality(obs))
            IN IF RatIsPos(base) THEN RatDiv(promedio_dia, base) ELSE RatOfInt(1)
       ELSE RatOfInt(1)

RECURSIVE DemandaSemana(_, _, _, _)
DemandaSemana(vo, base, hoy, i) ==
    IF i = 0 THEN RatOfInt(0)
    ELSE RatAdd(DemandaSemana(vo, base, hoy, i - 1),
                RatMul(base, FactorDia(vo, base, Weekday(hoy + i))))

\* confidence without the cap at 1.0
ConfianzaSinTope(n) == RoundHalfEven(RatOfFrac(100 * n, MIN_VENTAS_HOLT_WINTERS))

\* round(min(n / 30, 1.0), 2), in hundredths
Confianza(n) ==
    IF n >= MIN_VENTAS_HOLT_WINTERS THEN 100
    ELSE RoundHalfEven(RatOfFrac(100 * n, MIN_VENTAS_HOLT_WINTERS))

calcular_prediccion_simple(ventas_historicas, ahora) ==
    IF ventas_historicas = <<>> THEN [error |-> "ValueError"]
    ELSE IF \E i \in 1..Len(ventas_historicas) :
                ventas_historicas[i].fecha_venta = FECHA_INVALIDA
         THEN [error |-> "ValueError"]
    ELSE LET vo == OrdenarDesc(ventas_historicas)
             demanda_base == DemandaBase(vo)
             hoy == FechaLocal(ahora)
             demanda_manana == RatMul(demanda_base, FactorDia(vo, demanda_base, Weekday(hoy + 1)))
             demanda_semana == DemandaSemana(vo, demanda_base, hoy, 7)
         IN [demanda_manana |-> Max(0, RoundHalfEven(demanda_manana)),
             demanda_proxima_semana |-> Max(0, RoundHalfEven(demanda_semana)),
             confianza |-> Confianza(Len(vo)),
             metodo |-> "WEIGHTED_AVERAGE"]

(***************************************************************************)
(* calcular_alerta                                                         *)
(***************************************************************************)
\* the comparison with <= in place of <
calcular_alerta_le(stock_actual, demanda_manana, demanda_semana) ==
    IF stock_actual <= demanda_manana THEN "STOCK_CRITICO_MANANA"
    ELSE IF stock_actual <= demanda_semana THEN "STOCK_BAJO_SEMANA"
    ELSE "STOCK_SUFICIENTE"

calcular_alerta(stock_actual, demanda_manana, demanda_semana) ==
    IF stock_actual < demanda_manana THEN "STOCK_CRITICO_MANANA"
    ELSE IF stock_actual < demanda_semana THEN "STOCK_BAJO_SEMANA"
    ELSE "STOCK_SUFICIENTE"

(***************************************************************************)
(* State                                                                   *)
(***************************************************************************)
VARIABLES
    reloj,           \* wall clock, in hours
    caso,            \* argument of the pure function under study
    llamadas,        \* the invocations of it made so far, with their results
    t_productos,     \* DynamoDB table of products: (tenant, code) -> data
    t_ventas,        \* DynamoDB table of sales: tenant -> records in key order
    t_predicciones,  \* DynamoDB table of predictions: (tenant, entity_id) -> data
    s3,              \* stored model blobs: (bucket, tenant, product) -> model
    sns,             \* calls of sns.publish on the alerts topic, with their outcome
    ws,              \* number of WebSocket events emitted
    worker,          \* the running invocation of the per-tenant batch worker
    respuestas,      \* HTTP responses returned so far, in order
    origen,          \* for each stored prediction, how its numbers were produced
    t_tiendas,       \* DynamoDB table of stores, partition SAAI: code -> data
    sqs,             \* bodies of the messages sent to the predictions queue
    otra,            \* a second invocation of the worker, suspended while the first runs
    t_tokens         \* DynamoDB tables of tokens: (table, tenant, user) -> data

puras == <<caso, llamadas>>

orquestacion == <<t_tiendas, sqs>>
\* the state of the specifications of concurrency and of authorization
resto == <<otra, t_tokens>>

sistema == <<t_productos, t_ventas, t_predicciones, s3, sns, ws, worker,
             respuestas, origen, orquestacion, resto>>

vars == <<reloj, caso, llamadas, t_productos, t_ventas, t_predicciones, s3,
          sns, ws, worker, respuestas, origen, t_tiendas, sqs, otra, t_tokens>>

\* the system untouched, for the specifications of the pure functions
SistemaEnReposo ==
    /\ t_productos = <<>>
    /\ t_ventas = <<>>
    /\ t_predicciones = <<>>
    /\ s3 = <<>>
    /\ sns = EmptyBag
    /\ ws = 0
    /\ worker = [pc |-> "espera"]
    /\ respuestas = <<>>
    /\ origen = <<>>
    /\ t_tiendas = <<>>
    /\ sqs = <<>>
    /\ otra = [pc |-> "espera"]
    /\ t_tokens = <<>>

RelojInicial == 100 * 24

(***************************************************************************)
(* Specification SpecAlerta: calcular_alerta over integer triples.         *)
(***************************************************************************)
RangoAlerta == (0 - 1)..MaxCantidad

InitAlerta ==
    /\ reloj = RelojInicial
    /\ caso \in [stock_actual : RangoAlerta, demanda_manana : RangoAlerta,
                  demanda_semana : RangoAlerta]
    /\ llamadas = <<>>
    /\ SistemaEnReposo

LlamarAlerta ==
    /\ Len(llamadas) < MaxLlamadas
    /\ llamadas' = Append(llamadas,
            [caso |-> caso,
             alerta |-> calcular_alerta(caso.stock_actual, caso.demanda_manana,
                                         caso.demanda_semana)])
    /\ UNCHANGED <<reloj, caso, sistema>>

OtroCasoAlerta ==
    /\ Len(llamadas) = 1
    /\ \E s \in RangoAlerta :
          caso' = [caso EXCEPT !.stock_actual = s]
    /\ caso' # caso
    /\ UNCHANGED <<reloj, llamadas, sistema>>

NextAlerta == LlamarAlerta \/ OtroCasoAlerta

SpecAlerta == InitAlerta /\ [][NextAlerta]_vars

(***************************************************************************)
(* Histories used to exercise calcular_prediccion_simple.                  *)
(***************************************************************************)
\* quantity of the i-th record under pattern k
Cantidad(k, i) ==
    IF k = 0 THEN 0
    ELSE IF k = 1 THEN MaxCantidad - 1
    ELSE 1 + (i % MaxCantidad)

\* n records, one every paso days, the oldest first, the last one on day ultimo
Historia(n, paso, k, ultimo) ==
    [i \in 1..n |-> [cantidad_vendida |-> Cantidad(k, i),
                     fecha_venta |-> ultimo - (n - i) * paso]]

DiaInicial == RelojInicial \div 24

HistoriasPuras ==
    {Historia(n, 1, 2, DiaInicial) : n \in 1..MaxRegistros}
    \cup {Historia(n, paso, k, DiaInicial - 1) : n \in 1..3, paso \in {2, 7}, k \in 0..2}
    \cup {Historia(10, 1, 1, DiaInicial)}

(***************************************************************************)
(* Specification SpecSimple: one history, calcular_prediccion_simple       *)
(* invoked at different moments.                                           *)
(***************************************************************************)
InitSimple ==
    /\ reloj = RelojInicial
    /\ caso \in HistoriasPuras
    /\ llamadas = <<>>
    /\ SistemaEnReposo

LlamarSimple ==
    /\ Len(llamadas) < MaxLlamadas
    /\ llamadas' = Append(llamadas,
            [n |-> Len(caso), ahora |-> reloj,
             resultado |-> calcular_prediccion_simple(caso, reloj)])
    /\ UNCHANGED <<reloj, caso, sistema>>

PasarDia ==
    /\ reloj < RelojInicial + MaxDiaPuro * 24
    /\ reloj' = reloj + 24
    /\ UNCHANGED <<caso, llamadas, sistema>>

NextSimple == LlamarSimple \/ PasarDia

SpecSimple == InitSimple /\ [][NextSimple]_vars

(***************************************************************************)
(* Specification SpecConfianza: a history that grows record by record,     *)
(* calcular_prediccion_simple invoked on it at a fixed moment.             *)
(***************************************************************************)
InitConfianza ==
    /\ reloj = RelojInicial
    /\ caso = Historia(1, 1, 2, DiaInicial)
    /\ llamadas = <<>>
    /\ SistemaEnReposo

NuevaVenta ==
    /\ Len(caso) < MaxRegistros
    /\ caso' = Append(caso, [cantidad_vendida |-> Cantidad(2, Len(caso)),
                             fecha_venta |-> DiaInicial])
    /\ UNCHANGED <<reloj, llamadas, sistema>>

NextConfianza == LlamarSimple \/ NuevaVenta

SpecConfianza == InitConfianza /\ [][NextConfianza]_vars

(***************************************************************************)
(* Specification SpecFormula: calcular_prediccion_simple with its          *)
(* intermediate values, on histories of constant, varying and null         *)
(* quantity, with and without gaps between the days of sale.               *)
(***************************************************************************)
\* n records of quantity q, one every paso days, the last one on day ultimo
HistoriaConstante(n, paso, q, ultimo) ==
    [i \in 1..n |-> [cantidad_vendida |-> q, fecha_venta |-> ultimo - (n - i) * paso]]

MaxRegistrosFormula == 10

HistoriasFormula ==
    {HistoriaConstante(n, paso, q, DiaInicial) :
        n \in {1, 2, MaxRegistrosFormula}, paso \in {1, 3, 7}, q \in 1..MaxCantidad}
    \cup {Historia(n, paso, 2, DiaInicial - 1) :
        n \in {1, 5, MaxRegistrosFormula - 1}, paso \in {1, 2, 7}}
    \cup {Historia(n, paso, 0, DiaInicial) : n \in {1, 3}, paso \in {1, 7}}

\* the locals demanda_base and factor_dia of calcular_prediccion_simple
locales_prediccion_simple(ventas_historicas) ==
    [demanda_base |-> DemandaBase(OrdenarDesc(ventas_historicas)),
     factor_dia |-> [dia \in 0..6 |->
        FactorDia(OrdenarDesc(ventas_historicas),
                  DemandaBase(OrdenarDesc(ventas_historicas)), dia)]]

InitFormula ==
    /\ reloj = RelojInicial
    /\ caso \in HistoriasFormula
    /\ llamadas = <<>>
    /\ SistemaEnReposo

LlamarFormula ==
    /\ Len(llamadas) < MaxLlamadas
    /\ llamadas' = Append(llamadas,
            [ventas |-> caso, ahora |-> reloj,
             locales |-> locales_prediccion_simple(caso),
             resultado |-> calcular_prediccion_simple(caso, reloj)])
    /\ UNCHANGED <<reloj, caso, sistema>>

NextFormula == LlamarFormula \/ PasarDia

SpecFormula == InitFormula /\ [][NextFormula]_vars

(***************************************************************************)
(* The stores.  A DynamoDB table with the standard layout                  *)
(* {tenant_id, entity_id, data} is a function from the keys present to     *)
(* the data of the item; dates are day numbers, moments are hours.         *)
(***************************************************************************)
Tenants == {"T1", "T2", "T3", "T4"}

\* product codes, in the order of the sort key
OrdenProductos == <<"PA", "PB", "PC", "PD">>

\* None
NoItem == [ausente |-> TRUE]

\* dict.get(campo, defecto)
Get(r, campo, defecto) == IF campo \in DOMAIN r THEN r[campo] ELSE defecto

get_item_standard(tabla, tenant_id, entity_id) ==
    IF <<tenant_id, entity_id>> \in DOMAIN tabla
    THEN tabla[<<tenant_id, entity_id>>]
    ELSE NoItem

\* the table after table.put_item succeeded
Puesto(tabla, tenant_id, entity_id, data) ==
    [k \in DOMAIN tabla \cup {<<tenant_id, entity_id>>} |->
        IF k = <<tenant_id, entity_id>> THEN data ELSE tabla[k]]

\* put_item_standard: stamps the data; a rejected write is logged and
\* reported by a False that the callers modelled here all discard
Sellado(data) == [updated_at |-> reloj] @@ data @@ [created_at |-> reloj]

\* a write that merges into the item already stored, keeping its created_at
put_item_standard_fusion(tabla, tenant_id, entity_id, data, aceptado) ==
    IF ~ aceptado THEN tabla
    ELSE IF <<tenant_id, entity_id>> \in DOMAIN tabla
    THEN Puesto(tabla, tenant_id, entity_id,
                [created_at |-> tabla[<<tenant_id, entity_id>>].created_at] @@ Sellado(data))
    ELSE Puesto(tabla, tenant_id, entity_id, Sellado(data))

put_item_standard(tabla, tenant_id, entity_id, data, aceptado) ==
    IF aceptado THEN Puesto(tabla, tenant_id, entity_id, Sellado(data)) ELSE tabla

\* the model of a trained Holt-Winters forecaster: its 7-day forecast, in
\* tenths of a unit
S3_BUCKET == "saai-tiendas"
BUCKET_MODELOS == "saai-modelos-ml"

ModeloAlto == [forecast |-> <<26, 25, 24, 26, 25, 24, 25>>]
ModeloBajo == [forecast |-> <<0 - 6, 4, 5, 5, 15, 0 - 6, 8>>]
\* what entrenar_holt_winters may return for the histories of the model
ModelosEntrenables == {ModeloBajo}

\* a blob that joblib.loads / pickle.loads rejects
ModeloCorrupto == [corrupto |-> TRUE]

RECURSIVE SumaSeq(_, _)
SumaSeq(f, i) == IF i = 0 THEN 0 ELSE f[i] + SumaSeq(f, i - 1)

\* int(round(x)) for x given in tenths: Python rounds halves to even
RedondearDecimas(x) ==
    LET k == x \div 10
        r == x % 10
    IN IF r < 5 THEN k
       ELSE IF r > 5 THEN k + 1
       ELSE IF k % 2 = 0 THEN k ELSE k + 1

\* utils_ml.cargar_modelo_s3: the blob under {tenant}/modelos/{product}.pkl
cargar_modelo_s3(tenant_id, codigo_producto) ==
    IF /\ <<S3_BUCKET, tenant_id, codigo_producto>> \in DOMAIN s3
       /\ s3[<<S3_BUCKET, tenant_id, codigo_producto>>] # ModeloCorrupto
    THEN s3[<<S3_BUCKET, tenant_id, codigo_producto>>]
    ELSE NoItem

\* the worker's own cargar_modelo_s3: the blob under
\* {tenant}/{product}/modelo_holt_winters.pkl of BUCKET_MODELOS
cargar_modelo_s3_batch(tenant_id, codigo_producto) ==
    IF /\ <<BUCKET_MODELOS, tenant_id, codigo_producto>> \in DOMAIN s3
       /\ s3[<<BUCKET_MODELOS, tenant_id, codigo_producto>>] # ModeloCorrupto
    THEN s3[<<BUCKET_MODELOS, tenant_id, codigo_producto>>]
    ELSE NoItem

\* the model stored in the worker's bucket
guardar_modelo_s3_en_lote(tenant_id, codigo_producto, modelo) ==
    [k \in DOMAIN s3 \cup {<<BUCKET_MODELOS, tenant_id, codigo_producto>>} |->
        IF k = <<BUCKET_MODELOS, tenant_id, codigo_producto>> THEN modelo ELSE s3[k]]

\* guardar_modelo_s3
guardar_modelo_s3(tenant_id, codigo_producto, modelo) ==
    [k \in DOMAIN s3 \cup {<<S3_BUCKET, tenant_id, codigo_producto>>} |->
        IF k = <<S3_BUCKET, tenant_id, codigo_producto>> THEN modelo ELSE s3[k]]

(***************************************************************************)
(* Reading the sales history.  The forecasting code reads sale records     *)
(* that list their lines under 'items'; registrar_venta writes them under  *)
(* 'productos'.                                                            *)
(***************************************************************************)
FECHA_AUSENTE == -2

\* the lines of one sale for one product, as the records built from them
LineasDe(venta, codigo_producto, fecha) ==
    LET items == Get(venta, "items", <<>>)
        suyos == SelectSeq(items,
                    LAMBDA item : Get(item, "codigo_producto", "") = codigo_producto)
    IN [i \in 1..Len(suyos) |->
            [cantidad_vendida |-> Get(suyos[i], "cantidad", 0), fecha_venta |-> fecha]]

RECURSIVE Recoger(_, _, _, _)
Recoger(ventas, codigo_producto, campo_fecha, i) ==
    IF i = 0 THEN <<>>
    ELSE Recoger(ventas, codigo_producto, campo_fecha, i - 1)
         \o LineasDe(ventas[i], codigo_producto,
                     Get(ventas[i], campo_fecha, FECHA_AUSENTE))

\* query_by_tenant(..., include_inactive = False)
query_by_tenant(items) ==
    SelectSeq(items, LAMBDA data : Get(data, "estado", "") # "INACTIVO")

\* the worker's obtener_ventas_historicas: a missing fecha_venta is '' and
\* sorts before any date, a malformed one is compared as a string and kept
obtener_ventas_historicas_batch(tenant_id, codigo_producto, dias) ==
    LET fecha_inicio == reloj - dias * 24
        ventas == SelectSeq(query_by_tenant(t_ventas[tenant_id]),
                    LAMBDA venta :
                        LET fecha_venta == Get(venta, "fecha_venta", FECHA_AUSENTE)
                        IN /\ fecha_venta # FECHA_AUSENTE
                           /\ \/ fecha_venta = FECHA_INVALIDA
                              \/ fecha_venta * 24 >= fecha_inicio)
    IN Recoger(ventas, codigo_producto, "fecha_venta", Len(ventas))

\* utils_ml.obtener_ventas_historicas: filtered on 'fecha' by the query
obtener_ventas_historicas(tenant_id, codigo_producto, dias) ==
    LET fecha_limite == reloj - dias * 24
        ventas == SelectSeq(query_by_tenant(t_ventas[tenant_id]),
                    LAMBDA venta :
                        LET fecha == Get(venta, "fecha", FECHA_AUSENTE)
                        IN /\ fecha # FECHA_AUSENTE
                           /\ \/ fecha = FECHA_INVALIDA
                              \/ fecha * 24 >= fecha_limite)
    IN Recoger(ventas, codigo_producto, "fecha", Len(ventas))

\* preparar_dataset_holt_winters: the length of the daily series from the
\* first to the last day sold; pd.to_datetime raises on a malformed date
LargoSerie(ventas) ==
    LET dias == {ventas[i].fecha_venta : i \in 1..Len(ventas)}
        primero == CHOOSE d \in dias : \A e \in dias : d <= e
        ultimo == CHOOSE d \in dias : \A e \in dias : d >= e
    IN ultimo - primero + 1

(***************************************************************************)
(* Initial contents of the stores.                                         *)
(***************************************************************************)
\* sale records of one product in the layout the forecasting code reads
VentasLegadas(codigo_producto, historia) ==
    [i \in 1..Len(historia) |->
        [items |-> <<[codigo_producto |-> codigo_producto,
                      cantidad |-> historia[i].cantidad_vendida]>>,
         fecha_venta |-> historia[i].fecha_venta,
         fecha |-> historia[i].fecha_venta,
         estado |-> "COMPLETADA"]]

\* a history one of whose dates is not an ISO date
ConFechaMala(historia, j) ==
    [i \in 1..Len(historia) |->
        IF i = j THEN [historia[i] EXCEPT !.fecha_venta = FECHA_INVALIDA]
        ELSE historia[i]]

\* the histories of the products, inside the lookback window
HistoriaT1PA == Historia(MIN_VENTAS_HOLT_WINTERS, 1, 2, DiaInicial)
HistoriaT1PC == Historia(MIN_VENTAS_PREDICCION + 1, 2, 1, DiaInicial)
HistoriaT2PA == Historia(MIN_VENTAS_HOLT_WINTERS + 1, 1, 1, DiaInicial)

VentasT1 ==
    VentasLegadas("PA", Historia(1, 1, 2, DiaInicial - DIAS_HISTORICO - 5))
    \o VentasLegadas("PA", HistoriaT1PA)
    \o VentasLegadas("PB", ConFechaMala(Historia(MIN_VENTAS_PREDICCION + 1, 1, 2, DiaInicial), 2))
    \o VentasLegadas("PC", HistoriaT1PC)
    \o VentasLegadas("PD", Historia(MIN_VENTAS_PREDICCION - 1, 1, 1, DiaInicial))

VentasT2 ==
    VentasLegadas("PA", HistoriaT2PA)

\* calcular_prediccion_simple on the histories above, evaluated once per
\* calendar day the clock can reach
MaxMedioDia == 2

DiasDelReloj == DiaInicial..(DiaInicial + (MaxMedioDia + 1) \div 2)

TablaSimple ==
    [x \in {HistoriaT1PA, HistoriaT1PC, HistoriaT2PA} \X DiasDelReloj |->
        calcular_prediccion_simple(x[1], x[2] * 24)] @@ <<>>

\* the formula reading a clock that is a day and a half ahead
PrediccionSimpleRelojAdelantado(ventas) ==
    calcular_prediccion_simple(ventas, reloj + 36)

\* calcular_prediccion_simple(ventas, reloj)
PrediccionSimple(ventas) ==
    IF <<ventas, FechaLocal(reloj)>> \in DOMAIN TablaSimple
    THEN TablaSimple[<<ventas, FechaLocal(reloj)>>]
    ELSE calcular_prediccion_simple(ventas, reloj)

Producto(codigo_producto, stock, estado) ==
    [entity_id |-> codigo_producto, codigo_producto |-> codigo_producto,
     stock |-> stock, estado |-> estado]

\* a product as crear_producto writes it: no entity_id inside the data
ProductoCreado(codigo_producto, stock, estado) ==
    [codigo_producto |-> codigo_producto, stock |-> stock, estado |-> estado]

ProductosIniciales ==
    (<<"T1", "PA">> :> Producto("PA", 1, "ACTIVO"))
    @@ (<<"T1", "PB">> :> Producto("PB", 3, "ACTIVO"))
    @@ (<<"T1", "PC">> :> Producto("PC", 3, "ACTIVO"))
    @@ (<<"T1", "PD">> :> Producto("PD", 0, "ACTIVO"))
    @@ (<<"T2", "PA">> :> Producto("PA", 20, "ACTIVO"))
    @@ (<<"T2", "PB">> :> Producto("PB", 5, "INACTIVO"))
    @@ (<<"T2", "PC">> :> Producto("PC", 5, "ACTIVO"))
    @@ (<<"T3", "PA">> :> ProductoCreado("PA", 5, "ACTIVO"))
    @@ (<<"T4", "PA">> :> Producto("PA", 5, "INACTIVO"))

\* the buckets: empty, or both with a model for T1 / PA, or both with a
\* blob for T1 / PA that does not deserialize and the worker's with a model
\* for T2 / PA
S3Iniciales ==
    {<<>>,
     (<<BUCKET_MODELOS, "T1", "PA">> :> ModeloAlto)
        @@ (<<S3_BUCKET, "T1", "PA">> :> ModeloAlto),
     (<<BUCKET_MODELOS, "T1", "PA">> :> ModeloCorrupto)
        @@ (<<S3_BUCKET, "T1", "PA">> :> ModeloCorrupto)
        @@ (<<BUCKET_MODELOS, "T2", "PA">> :> ModeloBajo)}

\* the partition of t_tiendas
SAAI == "SAAI"

\* a store as registrar_tienda writes it: no entity_id inside the data
Tienda(codigo_tienda, estado) ==
    [codigo_tienda |-> codigo_tienda, estado |-> estado]

\* a store whose data repeat the sort key
TiendaConClave(codigo_tienda, estado) ==
    [entity_id |-> codigo_tienda, codigo_tienda |-> codigo_tienda, estado |-> estado]

\* a store whose data carry the sort key only
TiendaSinCodigo(codigo_tienda, estado) ==
    [entity_id |-> codigo_tienda, estado |-> estado]

TiendasBase ==
    (<<SAAI, "T1">> :> TiendaConClave("T1", "ACTIVA"))
    @@ (<<SAAI, "T2">> :> TiendaConClave("T2", "ACTIVA"))

InitSistema ==
    /\ sqs = <<>>
    /\ otra = [pc |-> "espera"]
    /\ t_tokens = <<>>
    /\ t_productos = ProductosIniciales
    /\ t_ventas = [t \in Tenants |-> IF t = "T1" THEN VentasT1
                                     ELSE IF t = "T2" THEN VentasT2 ELSE <<>>]
    /\ t_predicciones = <<>>
    /\ s3 \in S3Iniciales
    /\ sns = EmptyBag
    /\ ws = 0
    /\ worker = [pc |-> "espera"]
    /\ respuestas = <<>>
    /\ origen = <<>>

Init ==
    /\ reloj = RelojInicial
    /\ caso = <<>>
    /\ llamadas = <<>>
    /\ InitSistema
    /\ t_tiendas = TiendasBase

(***************************************************************************)
(* preparar_dataset_holt_winters: the daily series of a list of sales.     *)
(* The series is a function from the moments of its index (midnights, in   *)
(* hours) to quantities.  The records carry their date under fecha_venta   *)
(* here as in the rest of the model; the stored 'fecha' is a date only.    *)
(***************************************************************************)
\* pd.to_datetime of a date: the midnight that starts it
pd_to_datetime(fecha) == fecha * 24

\* groupby('fecha').sum() at one moment
RECURSIVE SumaAgrupada(_, _, _)
SumaAgrupada(ventas, momento, i) ==
    IF i = 0 THEN 0
    ELSE (IF pd_to_datetime(ventas[i].fecha_venta) = momento
          THEN ventas[i].cantidad_vendida ELSE 0)
         + SumaAgrupada(ventas, momento, i - 1)

\* pd.date_range(start, end, freq = 'D')
date_range(fecha_inicio, fecha_fin) ==
    {fecha_inicio + 24 * k : k \in 0..((fecha_fin - fecha_inicio) \div 24)}

\* the series that keeps, for a day, the quantity of its last record
preparar_dataset_holt_winters_sin_sumar(ventas) ==
    IF ventas = <<>> THEN NoItem
    ELSE LET fechas == {pd_to_datetime(ventas[i].fecha_venta) : i \in 1..Len(ventas)}
             fecha_inicio == CHOOSE f \in fechas : \A g \in fechas : f <= g
             fecha_fin == CHOOSE f \in fechas : \A g \in fechas : f >= g
             ultimo(f) == CHOOSE i \in 1..Len(ventas) :
                             /\ pd_to_datetime(ventas[i].fecha_venta) = f
                             /\ \A j \in (i + 1)..Len(ventas) :
                                    pd_to_datetime(ventas[j].fecha_venta) # f
         IN [serie |-> [f \in date_range(fecha_inicio, fecha_fin) |->
                            IF f \in fechas THEN ventas[ultimo(f)].cantidad_vendida ELSE 0]]

\* None for no sales; otherwise the quantities grouped by date and summed,
\* reindexed over every day from the first to the last date, 0 where absent
preparar_dataset_holt_winters(ventas) ==
    IF ventas = <<>> THEN NoItem
    ELSE LET fechas == {pd_to_datetime(ventas[i].fecha_venta) : i \in 1..Len(ventas)}
             fecha_inicio == CHOOSE f \in fechas : \A g \in fechas : f <= g
             fecha_fin == CHOOSE f \in fechas : \A g \in fechas : f >= g
         IN [serie |-> [f \in date_range(fecha_inicio, fecha_fin) |->
                            IF f \in fechas THEN SumaAgrupada(ventas, f, Len(ventas)) ELSE 0]]

(***************************************************************************)
(* Specification SpecSerie: a list of sales that grows record by record,   *)
(* in any order of dates, preparar_dataset_holt_winters invoked on it.     *)
(***************************************************************************)
MaxVentasSerie == 3
MaxHueco == 3

RegistrosSerie ==
    [cantidad_vendida : {1, MaxCantidad}, fecha_venta : (DiaInicial - MaxHueco)..DiaInicial]

InitSerie ==
    /\ reloj = RelojInicial
    /\ caso = <<>>
    /\ llamadas = <<>>
    /\ SistemaEnReposo

OtraVentaSerie ==
    /\ Len(caso) < MaxVentasSerie
    /\ \E venta \in RegistrosSerie : caso' = Append(caso, venta)
    /\ UNCHANGED <<reloj, llamadas, sistema>>

LlamarSerie ==
    /\ Len(llamadas) < MaxLlamadas
    /\ llamadas' = Append(llamadas,
            [ventas |-> caso, dataset |-> preparar_dataset_holt_winters(caso)])
    /\ UNCHANGED <<reloj, caso, sistema>>

NextSerie == OtraVentaSerie \/ LlamarSerie

SpecSerie == InitSerie /\ [][NextSerie]_vars

(***************************************************************************)
(* POST /predicciones/demanda: prediccion_demanda.handler, for a caller    *)
(* holding the ADMIN role.                                                 *)
(***************************************************************************)
MaxSolicitudes == 3

\* the products asked about
Consultas == {<<"T1", "PA">>, <<"T1", "PC">>}

Solicitudes == SelectSeq(respuestas, LAMBDA r : r.handler = "prediccion_demanda")

\* a cache key that leaves the date out
ClaveCacheSinFecha(codigo_producto, fecha) == <<codigo_producto, 0>>

\* cache_key: the product code and the date of today in Peru
ClaveCache(codigo_producto, fecha) == <<codigo_producto, fecha>>

Respuesta(tenant_id, codigo_producto, status, cache, data) ==
    [handler |-> "prediccion_demanda", tenant_id |-> tenant_id,
     codigo_producto |-> codigo_producto,
     fecha |-> obtener_solo_fecha_peru(reloj),
     status |-> status, cache |-> cache, data |-> data]

verificar_cache(tenant_id, codigo_producto) ==
    LET fecha_hoy == obtener_solo_fecha_peru(reloj)
        cache == get_item_standard(t_predicciones, tenant_id,
                                   ClaveCache(codigo_producto, fecha_hoy))
    IN IF cache # NoItem /\ Get(cache, "estado", "") = "ACTIVO"
       THEN [codigo_producto |-> Get(cache, "codigo_producto", "None"),
             demanda_manana |-> Get(cache, "demanda_manana", 0),
             demanda_proxima_semana |-> Get(cache, "demanda_proxima_semana", 0)]
       ELSE NoItem

\* the gate on the number of records alone, the length of the series unchecked
DatosParaEntrenarSinSerie(tenant_id, codigo_producto) ==
    LET ventas == obtener_ventas_historicas(tenant_id, codigo_producto, DIAS_HISTORICO)
    IN IF Len(ventas) < MIN_REGISTROS_ENTRENAMIENTO THEN "None"
       ELSE IF \E i \in 1..Len(ventas) : ventas[i].fecha_venta = FECHA_INVALIDA
            THEN "Exception"
       ELSE "Serie"

\* entrenar_modelo_on_demand up to the training itself: can a model be fit?
DatosParaEntrenar(tenant_id, codigo_producto) ==
    LET ventas == obtener_ventas_historicas(tenant_id, codigo_producto, DIAS_HISTORICO)
    IN IF Len(ventas) < MIN_REGISTROS_ENTRENAMIENTO THEN "None"
       ELSE IF \E i \in 1..Len(ventas) : ventas[i].fecha_venta = FECHA_INVALIDA
            THEN "Exception"
       ELSE IF LargoSerie(ventas) < MIN_REGISTROS_ENTRENAMIENTO THEN "None"
       ELSE "Serie"

\* the publish repeated once when it fails
AlertaPrediccionConReintento(tenant_id, codigo_producto, stock_actual, demanda_manana, demanda_semana, entregado) ==
    LET severity == IF stock_actual < demanda_manana THEN "CRITICAL" ELSE "WARNING"
        llamada(e) == SetToBag({[tipo |-> IF severity = "CRITICAL" THEN "stockBajoManana"
                                          ELSE "stockBajoProximaSemana",
                                 severity |-> severity,
                                 via |-> "prediccion_demanda", tenant_id |-> tenant_id,
                                 codigo_producto |-> codigo_producto, entregado |-> e]})
    IN IF stock_actual >= demanda_manana /\ stock_actual >= demanda_semana THEN EmptyBag
       ELSE IF entregado THEN llamada(TRUE)
       ELSE llamada(FALSE) (+) llamada(TRUE)

\* publicar_alertas_prediccion: the call of sns.publish, if any; entregado
\* tells whether it went through or raised, which the function swallows
AlertaPrediccion(tenant_id, codigo_producto, stock_actual, demanda_manana, demanda_semana, entregado) ==
    IF stock_actual < demanda_manana
    THEN SetToBag({[tipo |-> "stockBajoManana", severity |-> "CRITICAL",
                    via |-> "prediccion_demanda", tenant_id |-> tenant_id,
                    codigo_producto |-> codigo_producto, entregado |-> entregado]})
    ELSE IF stock_actual < demanda_semana
    THEN SetToBag({[tipo |-> "stockBajoProximaSemana", severity |-> "WARNING",
                    via |-> "prediccion_demanda", tenant_id |-> tenant_id,
                    codigo_producto |-> codigo_producto, entregado |-> entregado]})
    ELSE EmptyBag

\* a hit that also pushes the entry's expiry forward
PrediccionDemandaHitRenuevaTTL(tenant_id, codigo_producto) ==
    LET prediccion_cache == verificar_cache(tenant_id, codigo_producto)
        clave == <<tenant_id, ClaveCache(codigo_producto, obtener_solo_fecha_peru(reloj))>>
    IN /\ prediccion_cache # NoItem
       /\ respuestas' = Append(respuestas,
              Respuesta(tenant_id, codigo_producto, 200, "HIT", prediccion_cache))
       /\ t_predicciones' = [t_predicciones EXCEPT ![clave].ttl = reloj + CACHE_TTL_HORAS + 1]
       /\ UNCHANGED <<reloj, puras, orquestacion, resto, t_productos, t_ventas, s3, sns,
                      ws, worker, origen>>

\* steps 2 of the handler: the cached entry is returned
PrediccionDemandaHit(tenant_id, codigo_producto) ==
    LET prediccion_cache == verificar_cache(tenant_id, codigo_producto)
    IN /\ prediccion_cache # NoItem
       /\ respuestas' = Append(respuestas,
              Respuesta(tenant_id, codigo_producto, 200, "HIT", prediccion_cache))
       /\ UNCHANGED <<reloj, puras, orquestacion, resto, t_productos, t_ventas, t_predicciones, s3, sns,
                      ws, worker, origen>>

\* no cached entry, no stored model and not enough data to train one
PrediccionDemandaSinDatos(tenant_id, codigo_producto) ==
    /\ verificar_cache(tenant_id, codigo_producto) = NoItem
    /\ cargar_modelo_s3(tenant_id, codigo_producto) = NoItem
    /\ DatosParaEntrenar(tenant_id, codigo_producto) = "None"
    /\ respuestas' = Append(respuestas,
            Respuesta(tenant_id, codigo_producto, 400, "MISS", NoItem))
    /\ UNCHANGED <<reloj, puras, orquestacion, resto, t_productos, t_ventas, t_predicciones, s3, sns,
                   ws, worker, origen>>

\* no cached entry, and training or storing the model raises
PrediccionDemandaError(tenant_id, codigo_producto) ==
    /\ verificar_cache(tenant_id, codigo_producto) = NoItem
    /\ cargar_modelo_s3(tenant_id, codigo_producto) = NoItem
    /\ DatosParaEntrenar(tenant_id, codigo_producto) \in {"Exception", "Serie"}
    /\ respuestas' = Append(respuestas,
            Respuesta(tenant_id, codigo_producto, 500, "MISS", NoItem))
    /\ UNCHANGED <<reloj, puras, orquestacion, resto, t_productos, t_ventas, t_predicciones, s3, sns,
                   ws, worker, origen>>

\* steps 3 to 10: load or train, forecast, store, alert, notify, answer
PrediccionDemandaMiss(tenant_id, codigo_producto) ==
    LET guardado == cargar_modelo_s3(tenant_id, codigo_producto)
        entrena == guardado = NoItem
    IN /\ verificar_cache(tenant_id, codigo_producto) = NoItem
       /\ entrena => DatosParaEntrenar(tenant_id, codigo_producto) = "Serie"
       /\ \E modelo \in (IF entrena THEN ModelosEntrenables ELSE {guardado}),
             aceptado \in BOOLEAN, entregado \in BOOLEAN :
            LET demanda_manana == Max(0, RedondearDecimas(modelo.forecast[1]))
                demanda_proxima_semana ==
                    Max(0, RedondearDecimas(SumaSeq(modelo.forecast, FORECAST_DAYS)))
                producto == get_item_standard(t_productos, tenant_id, codigo_producto)
                stock_actual == IF producto # NoItem THEN Get(producto, "stock", 0) ELSE 0
                fecha_hoy == obtener_solo_fecha_peru(reloj)
                prediccion_data ==
                    [codigo_producto |-> codigo_producto,
                     demanda_manana |-> demanda_manana,
                     demanda_proxima_semana |-> demanda_proxima_semana,
                     forecast_7_dias |-> modelo.forecast,
                     stock_actual |-> stock_actual,
                     fecha_prediccion |-> reloj - PERU_UTC_OFFSET,
                     estado |-> "ACTIVO",
                     ttl |-> reloj + CACHE_TTL_HORAS]
                alertas == AlertaPrediccion(tenant_id, codigo_producto, stock_actual,
                                            demanda_manana, demanda_proxima_semana,
                                            entregado)
                clave == <<tenant_id, ClaveCache(codigo_producto, fecha_hoy)>>
            IN /\ s3' = IF entrena THEN guardar_modelo_s3(tenant_id, codigo_producto, modelo)
                        ELSE s3
               /\ t_predicciones' = put_item_standard(t_predicciones, tenant_id,
                        ClaveCache(codigo_producto, fecha_hoy), prediccion_data, aceptado)
               /\ origen' = IF aceptado
                            THEN [k \in DOMAIN origen \cup {clave} |->
                                    IF k = clave
                                    THEN [via |-> "prediccion_demanda", algoritmo |-> "FORECAST"]
                                    ELSE origen[k]]
                            ELSE origen
               /\ sns' = sns (+) alertas
               /\ ws' = ws + 1
               /\ respuestas' = Append(respuestas,
                      Respuesta(tenant_id, codigo_producto, 200, "MISS",
                          [codigo_producto |-> codigo_producto,
                           demanda_manana |-> demanda_manana,
                           demanda_proxima_semana |-> demanda_proxima_semana]))
       /\ UNCHANGED <<reloj, puras, orquestacion, resto, t_productos, t_ventas, worker>>

PrediccionDemanda ==
    /\ Len(Solicitudes) < MaxSolicitudes
    /\ \E consulta \in Consultas :
          \/ PrediccionDemandaHit(consulta[1], consulta[2])
          \/ PrediccionDemandaSinDatos(consulta[1], consulta[2])
          \/ PrediccionDemandaError(consulta[1], consulta[2])
          \/ PrediccionDemandaMiss(consulta[1], consulta[2])

(***************************************************************************)
(* POST /ventas: registrar_venta.handler, for a caller holding the         *)
(* TRABAJADOR role.                                                        *)
(***************************************************************************)
MaxVentas == 1

\* the request bodies tried: lists of (codigo_producto, cantidad)
Pedidos ==
    {<<[codigo_producto |-> "PA", cantidad |-> 1]>>,
     <<[codigo_producto |-> "PC", cantidad |-> 1], [codigo_producto |-> "PC", cantidad |-> 2]>>,
     <<[codigo_producto |-> "PD", cantidad |-> 1]>>}

VentasPedidas == SelectSeq(respuestas, LAMBDA r : r.handler = "registrar_venta")

RespuestaVenta(tenant_id, status) ==
    [handler |-> "registrar_venta", tenant_id |-> tenant_id,
     fecha |-> obtener_solo_fecha_peru(reloj), status |-> status]

\* the validation loop over the lines: the status of the first line that
\* fails, 200 if none does
RECURSIVE ValidarPedido(_, _, _)
ValidarPedido(tenant_id, productos, i) ==
    IF i > Len(productos) THEN 200
    ELSE LET producto_data == get_item_standard(t_productos, tenant_id,
                                                productos[i].codigo_producto)
         IN IF productos[i].cantidad <= 0 THEN 400
            ELSE IF producto_data = NoItem \/ Get(producto_data, "estado", "") # "ACTIVO"
                 THEN 404
            ELSE IF Get(producto_data, "stock", 0) < productos[i].cantidad THEN 400
            ELSE ValidarPedido(tenant_id, productos, i + 1)

\* the product table after the puts of productos_a_actualizar, each line's
\* new stock computed from the stock read while validating
RECURSIVE ActualizarStock(_, _, _, _)
ActualizarStock(tabla, tenant_id, productos, i) ==
    IF i > Len(productos) THEN tabla
    ELSE LET leido == t_productos[<<tenant_id, productos[i].codigo_producto>>]
             producto_actualizado ==
                 [leido EXCEPT !.stock = Get(leido, "stock", 0) - productos[i].cantidad]
         IN ActualizarStock(
                Puesto(tabla, tenant_id, productos[i].codigo_producto,
                       Sellado(producto_actualizado)),
                tenant_id, productos, i + 1)

\* a line fails validation: nothing is written
RegistrarVentaRechazada(tenant_id, productos) ==
    /\ ValidarPedido(tenant_id, productos, 1) # 200
    /\ respuestas' = Append(respuestas,
            RespuestaVenta(tenant_id, ValidarPedido(tenant_id, productos, 1)))
    /\ UNCHANGED <<reloj, puras, orquestacion, resto, t_productos, t_ventas, t_predicciones, s3, sns,
                   ws, worker, origen>>

\* what a valid sale writes: the sale, the stocks, the notification, the event
EfectoVenta(tenant_id, productos) ==
    /\ ValidarPedido(tenant_id, productos, 1) = 200
    /\ \E aceptado \in BOOLEAN :
          /\ t_ventas' = IF aceptado
                THEN [t_ventas EXCEPT ![tenant_id] = Append(@,
                        [productos |-> productos,
                         fecha |-> obtener_solo_fecha_peru(reloj),
                         estado |-> "COMPLETADA",
                         created_at |-> reloj, updated_at |-> reloj])]
                ELSE t_ventas
          /\ t_productos' = IF aceptado
                THEN ActualizarStock(t_productos, tenant_id, productos, 1)
                ELSE t_productos
    /\ sns' = sns (+) SetToBag({[tipo |-> "venta_realizada", via |-> "registrar_venta",
                                  tenant_id |-> tenant_id]})
    /\ ws' = ws + 1
    /\ respuestas' = Append(respuestas, RespuestaVenta(tenant_id, 200))

\* a sale that also deactivates the cached predictions of the products sold
RegistrarVentaInvalidaCache(tenant_id, productos) ==
    /\ EfectoVenta(tenant_id, productos)
    /\ t_predicciones' =
          [k \in DOMAIN t_predicciones |->
              IF k[1] = tenant_id
                 /\ \E i \in 1..Len(productos) : productos[i].codigo_producto = k[2][1]
              THEN [t_predicciones[k] EXCEPT !.estado = "INACTIVO"]
              ELSE t_predicciones[k]]
    /\ UNCHANGED <<reloj, puras, orquestacion, resto, s3, worker, origen>>

RegistrarVentaAceptada(tenant_id, productos) ==
    /\ EfectoVenta(tenant_id, productos)
    /\ UNCHANGED <<reloj, puras, orquestacion, resto, t_predicciones, s3, worker, origen>>

RegistrarVenta ==
    /\ Len(VentasPedidas) < MaxVentas
    /\ \E productos \in Pedidos :
          \/ RegistrarVentaRechazada("T1", productos)
          \/ RegistrarVentaAceptada("T1", productos)

(***************************************************************************)
(* The per-tenant batch worker: generar_predicciones_por_tienda.handler,   *)
(* one step per tenant listing, per product and per tenant event.          *)
(***************************************************************************)
MaxInvocaciones == 1

\* the SQS events delivered: the tenants of their records
Eventos == {<<"T1", "T2">>, <<"T2", "T1">>, <<"T3">>, <<"T3", "T1">>, <<"T4">>}

ClaveLote(codigo_producto) == <<codigo_producto>>

\* the product items of a tenant that query_by_tenant returns, in key order
ItemsProductos(tenant_id) ==
    LET codigos == SelectSeq(OrdenProductos,
                      LAMBDA c : <<tenant_id, c>> \in DOMAIN t_productos)
    IN query_by_tenant([i \in 1..Len(codigos) |-> t_productos[<<tenant_id, codigos[i]>>]])

\* listar_productos_tienda: item['entity_id'] of every item
listar_productos_tienda(tenant_id) ==
    LET items == ItemsProductos(tenant_id)
    IN IF \E i \in 1..Len(items) : "entity_id" \notin DOMAIN items[i]
       THEN [error |-> "KeyError"]
       ELSE [productos |-> [i \in 1..Len(items) |-> items[i].entity_id]]

\* the model consulted from more than 30 sales on
modelo_para_registros_mas_de(tenant_id, codigo_producto, registros) ==
    IF registros > MIN_VENTAS_HOLT_WINTERS
    THEN cargar_modelo_s3_batch(tenant_id, codigo_producto)
    ELSE NoItem

\* calcular_prediccion_producto, the model: consulted in the worker's bucket
\* from 30 sales on, None otherwise
modelo_para_registros(tenant_id, codigo_producto, registros) ==
    IF registros >= MIN_VENTAS_HOLT_WINTERS
    THEN cargar_modelo_s3_batch(tenant_id, codigo_producto)
    ELSE NoItem

\* calcular_prediccion_producto, the stock read for the snapshot
stock_del_producto(producto) ==
    IF producto # NoItem THEN Get(producto, "stock", 0) ELSE 0

\* the prediction made from the first record on
prediccion_segun_desde_uno(registros, modelo, stock_actual, resultado) ==
    IF registros < 1
    THEN [clase |-> "None", registros |-> registros, con_modelo |-> FALSE]
    ELSE IF modelo # NoItem
    THEN [clase |-> "prediccion", registros |-> registros, con_modelo |-> TRUE,
          algoritmo |-> "FORECAST",
          prediccion |->
             [demanda_manana |-> Max(0, RedondearDecimas(modelo.forecast[1])),
              demanda_proxima_semana |->
                 Max(0, RedondearDecimas(SumaSeq(modelo.forecast, FORECAST_DAYS))),
              metodo |-> "HOLT_WINTERS",
              confianza |-> CONFIANZA_HOLT_WINTERS,
              stock_snapshot |-> stock_actual,
              fecha_prediccion |-> reloj - PERU_UTC_OFFSET]]
    ELSE IF EsError(resultado)
    THEN [clase |-> "Exception", registros |-> registros, con_modelo |-> FALSE]
    ELSE [clase |-> "prediccion", registros |-> registros, con_modelo |-> FALSE,
          algoritmo |-> "FORMULA",
          prediccion |->
             [demanda_manana |-> resultado.demanda_manana,
              demanda_proxima_semana |-> resultado.demanda_proxima_semana,
              metodo |-> resultado.metodo,
              confianza |-> resultado.confianza,
              stock_snapshot |-> stock_actual,
              fecha_prediccion |-> reloj - PERU_UTC_OFFSET]]

\* calcular_prediccion_producto, the branches: None below 5 sales, the
\* stored model's forecast when there is one, the weighted-average formula
\* otherwise.  registros, con_modelo and algoritmo record the branch taken.
prediccion_segun(registros, modelo, stock_actual, resultado) ==
    IF registros < MIN_VENTAS_PREDICCION
    THEN [clase |-> "None", registros |-> registros, con_modelo |-> FALSE]
    ELSE IF modelo # NoItem
    THEN [clase |-> "prediccion", registros |-> registros, con_modelo |-> TRUE,
          algoritmo |-> "FORECAST",
          prediccion |->
             [demanda_manana |-> Max(0, RedondearDecimas(modelo.forecast[1])),
              demanda_proxima_semana |->
                 Max(0, RedondearDecimas(SumaSeq(modelo.forecast, FORECAST_DAYS))),
              metodo |-> "HOLT_WINTERS",
              confianza |-> CONFIANZA_HOLT_WINTERS,
              stock_snapshot |-> stock_actual,
              fecha_prediccion |-> reloj - PERU_UTC_OFFSET]]
    ELSE IF EsError(resultado)
    THEN [clase |-> "Exception", registros |-> registros, con_modelo |-> FALSE]
    ELSE [clase |-> "prediccion", registros |-> registros, con_modelo |-> FALSE,
          algoritmo |-> "FORMULA",
          prediccion |->
             [demanda_manana |-> resultado.demanda_manana,
              demanda_proxima_semana |-> resultado.demanda_proxima_semana,
              metodo |-> resultado.metodo,
              confianza |-> resultado.confianza,
              stock_snapshot |-> stock_actual,
              fecha_prediccion |-> reloj - PERU_UTC_OFFSET]]

\* calcular_prediccion_producto on the sales read
prediccion_de_ventas(tenant_id, codigo_producto, ventas) ==
    prediccion_segun(Len(ventas),
        modelo_para_registros(tenant_id, codigo_producto, Len(ventas)),
        stock_del_producto(get_item_standard(t_productos, tenant_id, codigo_producto)),
        PrediccionSimple(ventas))

\* calcular_prediccion_producto: the sales of the last 90 days, then the
\* prediction from them
calcular_prediccion_producto(tenant_id, codigo_producto) ==
    prediccion_de_ventas(tenant_id, codigo_producto,
        obtener_ventas_historicas_batch(tenant_id, codigo_producto, DIAS_HISTORICO))

\* guardar_prediccion: the item written under the product code
DatosPrediccion(prediccion) ==
    [demanda_manana |-> prediccion.demanda_manana,
     demanda_proxima_semana |-> prediccion.demanda_proxima_semana,
     metodo |-> prediccion.metodo,
     confianza |-> prediccion.confianza,
     fecha_prediccion |-> prediccion.fecha_prediccion,
     ttl |-> reloj + PREDICCIONES_TTL_HORAS,
     estado |-> "ACTIVO"]

EstadisticasIniciales ==
    [total_productos |-> 0, productos_con_ia |-> 0, productos_con_formula |-> 0,
     productos_omitidos |-> 0, alertas_generadas |-> 0]

\* the handler is invoked with an event
WorkerRecibir ==
    /\ worker.pc \in {"espera", "hecho", "error"}
    /\ Get(worker, "invocaciones", 0) < MaxInvocaciones
    /\ \E records \in Eventos :
          worker' = [pc |-> "registro",
                     invocaciones |-> Get(worker, "invocaciones", 0) + 1,
                     records |-> records, r |-> 1,
                     productos |-> <<>>, p |-> 0,
                     estadisticas |-> NoItem,
                     bitacora |-> <<>>, emitidos |-> <<>>]
    /\ UNCHANGED <<reloj, puras, orquestacion, resto, t_productos, t_ventas, t_predicciones, s3, sns,
                   ws, respuestas, origen>>

MaxEntregas == 2

\* SQS delivers at least once: the first delivery brings an event, and the
\* event the handler has finished with (by returning or by raising) is
\* delivered again, the handler starting over
WorkerRecibirEntrega ==
    /\ worker.pc \in {"espera", "hecho", "error"}
    /\ Get(worker, "entregas", 0) < MaxEntregas
    /\ \E records \in (IF worker.pc = "espera" THEN Eventos ELSE {worker.records}) :
          worker' = [pc |-> "registro",
                     invocaciones |-> Get(worker, "invocaciones", 0) + 1,
                     entregas |-> Get(worker, "entregas", 0) + 1,
                     records |-> records, r |-> 1,
                     productos |-> <<>>, p |-> 0,
                     estadisticas |-> NoItem,
                     bitacora |-> <<>>, emitidos |-> <<>>]
    /\ UNCHANGED <<reloj, puras, orquestacion, resto, t_productos, t_ventas, t_predicciones, s3, sns,
                   ws, respuestas, origen>>

\* where the loop over the records goes after record r
TrasRegistro(w) ==
    IF w.r < Len(w.records)
    THEN [w EXCEPT !.pc = "registro", !.r = w.r + 1]
    ELSE [w EXCEPT !.pc = "retorno", !.r = w.r + 1]

\* listing the tenant's products raises: the handler re-raises
WorkerListarFalla ==
    /\ worker.pc = "registro"
    /\ EsError(listar_productos_tienda(worker.records[worker.r]))
    /\ worker' = [worker EXCEPT !.pc = "error"]
    /\ UNCHANGED <<reloj, puras, orquestacion, resto, t_productos, t_ventas, t_predicciones, s3, sns,
                   ws, respuestas, origen>>

\* the tenant has no active product: continue with the next record
WorkerSinProductos ==
    /\ worker.pc = "registro"
    /\ ~ EsError(listar_productos_tienda(worker.records[worker.r]))
    /\ listar_productos_tienda(worker.records[worker.r]).productos = <<>>
    /\ worker' = TrasRegistro(worker)
    /\ UNCHANGED <<reloj, puras, orquestacion, resto, t_productos, t_ventas, t_predicciones, s3, sns,
                   ws, respuestas, origen>>

\* the tenant has products: fresh statistics, then the loop over them
WorkerListar ==
    /\ worker.pc = "registro"
    /\ ~ EsError(listar_productos_tienda(worker.records[worker.r]))
    /\ listar_productos_tienda(worker.records[worker.r]).productos # <<>>
    /\ worker' = [worker EXCEPT
            !.pc = "producto",
            !.productos = listar_productos_tienda(worker.records[worker.r]).productos,
            !.p = 1,
            !.estadisticas = EstadisticasIniciales]
    /\ UNCHANGED <<reloj, puras, orquestacion, resto, t_productos, t_ventas, t_predicciones, s3, sns,
                   ws, respuestas, origen>>

\* the worker after product p of the current tenant, given its outcome
TrasProducto(w, estadisticas, resultado, calculo) ==
    [w EXCEPT
        !.pc = IF w.p < Len(w.productos) THEN "producto" ELSE "evento",
        !.p = w.p + 1,
        !.estadisticas = estadisticas,
        !.bitacora = Append(w.bitacora,
            [registro |-> w.r,
             tenant_id |-> w.records[w.r], codigo_producto |-> w.productos[w.p],
             resultado |-> resultado, registros |-> calculo.registros,
             con_modelo |-> calculo.con_modelo,
             metodo |-> IF resultado = "PREDICHO" THEN calculo.prediccion.metodo ELSE "-",
             algoritmo |-> IF resultado = "PREDICHO" THEN calculo.algoritmo ELSE "-",
             prediccion |-> IF resultado = "PREDICHO" THEN calculo.prediccion ELSE NoItem])]

\* the inner except: the failure is counted as an omitted product
producto_fallido(calculo) ==
    /\ calculo.clase = "Exception"
    /\ worker' = TrasProducto(worker,
          [worker.estadisticas EXCEPT !.productos_omitidos = @ + 1],
          "FALLO", calculo)

\* a failure of one product that escapes the loop and ends the invocation
WorkerProductoFallaAborta ==
    /\ worker.pc = "producto"
    /\ calcular_prediccion_producto(worker.records[worker.r],
                                    worker.productos[worker.p]).clase = "Exception"
    /\ worker' = [worker EXCEPT !.pc = "error"]
    /\ UNCHANGED <<reloj, puras, orquestacion, resto, t_productos, t_ventas, t_predicciones, s3, sns,
                   ws, respuestas, origen>>

\* the computation raises: caught by the inner except, counted as omitted
WorkerProductoFalla ==
    /\ worker.pc = "producto"
    /\ producto_fallido(calcular_prediccion_producto(worker.records[worker.r],
                                                     worker.productos[worker.p]))
    /\ UNCHANGED <<reloj, puras, orquestacion, resto, t_productos, t_ventas, t_predicciones, s3, sns,
                   ws, respuestas, origen>>

\* the else branch leaving the counter as it is
producto_omitido_sin_contar(calculo) ==
    /\ calculo.clase = "None"
    /\ worker' = TrasProducto(worker, worker.estadisticas, "OMITIDO", calculo)

\* the else branch: no prediction, counted as an omitted product
producto_omitido(calculo) ==
    /\ calculo.clase = "None"
    /\ worker' = TrasProducto(worker,
          [worker.estadisticas EXCEPT !.productos_omitidos = @ + 1],
          "OMITIDO", calculo)

\* not enough sales: no prediction, counted as omitted
WorkerProductoOmitido ==
    /\ worker.pc = "producto"
    /\ producto_omitido(calcular_prediccion_producto(worker.records[worker.r],
                                                     worker.productos[worker.p]))
    /\ UNCHANGED <<reloj, puras, orquestacion, resto, t_productos, t_ventas, t_predicciones, s3, sns,
                   ws, respuestas, origen>>

\* the if branch: guardar_prediccion, the counters, and the alert when the
\* stock does not cover tomorrow's demand
producto_predicho(tenant_id, codigo_producto, clave, calculo, critico) ==
    /\ calculo.clase = "prediccion"
    /\ \E aceptado \in BOOLEAN, entregado \in BOOLEAN :
          /\ t_predicciones' = put_item_standard(t_predicciones, tenant_id,
                    ClaveLote(codigo_producto), DatosPrediccion(calculo.prediccion),
                    aceptado)
          /\ origen' = IF aceptado
                       THEN [k \in DOMAIN origen \cup {clave} |->
                                IF k = clave
                                THEN [via |-> "lote", algoritmo |-> calculo.algoritmo]
                                ELSE origen[k]]
                       ELSE origen
          /\ sns' = IF critico
                    THEN sns (+) SetToBag({[tipo |-> "stockBajoManana",
                            severity |-> "CRITICAL", via |-> "lote",
                            tenant_id |-> tenant_id,
                            codigo_producto |-> codigo_producto,
                            entregado |-> entregado]})
                    ELSE sns
          /\ worker' = TrasProducto(worker,
                [worker.estadisticas EXCEPT
                    !.total_productos = @ + 1,
                    !.productos_con_ia =
                        IF calculo.prediccion.metodo = "HOLT_WINTERS" THEN @ + 1 ELSE @,
                    !.productos_con_formula =
                        IF calculo.prediccion.metodo = "HOLT_WINTERS" THEN @ ELSE @ + 1,
                    !.alertas_generadas = IF critico THEN @ + 1 ELSE @],
                "PREDICHO", calculo)

\* the alert of a computed prediction is the critical one or the weekly one
es_critico_o_bajo(calculo) ==
    /\ calculo.clase = "prediccion"
    /\ calcular_alerta(calculo.prediccion.stock_snapshot,
                       calculo.prediccion.demanda_manana,
                       calculo.prediccion.demanda_proxima_semana)
          # "STOCK_SUFICIENTE"

\* the alert of a computed prediction is the critical one
es_critico(calculo) ==
    /\ calculo.clase = "prediccion"
    /\ calcular_alerta(calculo.prediccion.stock_snapshot,
                       calculo.prediccion.demanda_manana,
                       calculo.prediccion.demanda_proxima_semana)
          = "STOCK_CRITICO_MANANA"

\* the step for a product with its computation
producto_con_calculo(tenant_id, codigo_producto, calculo) ==
    producto_predicho(tenant_id, codigo_producto,
        <<tenant_id, ClaveLote(codigo_producto)>>, calculo, es_critico(calculo))

\* a prediction: stored, counted, and alerted when the stock is critical
WorkerProductoPredicho ==
    /\ worker.pc = "producto"
    /\ producto_con_calculo(worker.records[worker.r], worker.productos[worker.p],
          calcular_prediccion_producto(worker.records[worker.r],
                                       worker.productos[worker.p]))
    /\ UNCHANGED <<reloj, puras, orquestacion, resto, t_productos, t_ventas, s3, ws, respuestas>>

\* the first half of the if branch: calcular_prediccion_producto has returned
\* a prediction, which the invocation holds until it writes it
WorkerCalcula ==
    /\ worker.pc = "producto"
    /\ calcular_prediccion_producto(worker.records[worker.r],
                                    worker.productos[worker.p]).clase = "prediccion"
    /\ worker' = [pc |-> "guardar", calculo |->
                     calcular_prediccion_producto(worker.records[worker.r],
                                                  worker.productos[worker.p])]
                 @@ worker
    /\ UNCHANGED <<reloj, puras, orquestacion, resto, t_productos, t_ventas, t_predicciones,
                   s3, sns, ws, respuestas, origen>>

\* the second half: guardar_prediccion, the counters and the alert, with the
\* prediction computed before
WorkerGuarda ==
    /\ worker.pc = "guardar"
    /\ producto_con_calculo(worker.records[worker.r], worker.productos[worker.p],
                            worker.calculo)
    /\ UNCHANGED <<reloj, puras, orquestacion, resto, t_productos, t_ventas, s3, ws,
                   respuestas>>

\* the events of the concurrent deliveries
EventosConcurrentes == {<<"T1">>, <<"T4", "T3">>}

\* an invocation starts on its own Lambda instance
WorkerRecibirConcurrente ==
    /\ worker.pc = "espera"
    /\ \E records \in EventosConcurrentes :
          worker' = [pc |-> "registro", invocaciones |-> 1,
                     records |-> records, r |-> 1,
                     productos |-> <<>>, p |-> 0,
                     estadisticas |-> NoItem,
                     bitacora |-> <<>>, emitidos |-> <<>>]
    /\ UNCHANGED <<reloj, puras, orquestacion, resto, t_productos, t_ventas, t_predicciones,
                   s3, sns, ws, respuestas, origen>>

\* the two invocations run on separate instances: either takes the next step
Conmutar ==
    /\ worker' = otra
    /\ otra' = worker
    /\ UNCHANGED <<reloj, puras, orquestacion, t_tokens, t_productos, t_ventas,
                   t_predicciones, s3, sns, ws, respuestas, origen>>

\* one WebSocket event for the tenant, then the next record
WorkerEmitir ==
    /\ worker.pc = "evento"
    /\ ws' = ws + 1
    /\ worker' = [TrasRegistro(worker) EXCEPT
                    !.emitidos = Append(worker.emitidos, worker.records[worker.r])]
    /\ UNCHANGED <<reloj, puras, orquestacion, resto, t_productos, t_ventas, t_predicciones, s3, sns,
                   respuestas, origen>>

\* return {'statusCode': 200, 'estadisticas': estadisticas}: the name is
\* unbound when no record had products, and the handler raises
WorkerRetornar ==
    /\ worker.pc = "retorno"
    /\ worker' = [worker EXCEPT
                    !.pc = IF worker.estadisticas = NoItem THEN "error" ELSE "hecho"]
    /\ UNCHANGED <<reloj, puras, orquestacion, resto, t_productos, t_ventas, t_predicciones, s3, sns,
                   ws, respuestas, origen>>

(***************************************************************************)
(* The scheduled handlers over the stores of the platform: the daily       *)
(* orchestrator (orquestar_predicciones_diarias.handler) and the training  *)
(* run (entrenar_modelos.handler), one step per invocation, next to the    *)
(* registration of a store.  The queue delivers the bodies sent here to    *)
(* the worker as the records of Eventos.                                   *)
(***************************************************************************)
MaxPasadas == 2
MaxTiendasNuevas == 1

DIAS_ACTIVIDAD_MINIMA == 30
VENTAS_MINIMAS_ENTRENAMIENTO == 5

\* store codes, in the order of the sort key
OrdenTiendas == <<"T1", "T2", "T3", "T4">>

\* the data of one item as query_by_tenant hands it over: the keys are
\* added under _tenant_id and _entity_id
ConClaves(tenant_id, entity_id, data) ==
    [k \in DOMAIN data \cup {"_tenant_id", "_entity_id"} |->
        IF k = "_tenant_id" THEN tenant_id
        ELSE IF k = "_entity_id" THEN entity_id
        ELSE data[k]]

\* query_by_tenant('t_tiendas', 'SAAI'): the items in key order; a query
\* that raises is logged and yields no items
ItemsTiendas(consultado) ==
    LET codigos == SelectSeq(OrdenTiendas, LAMBDA c : <<SAAI, c>> \in DOMAIN t_tiendas)
    IN IF consultado
       THEN query_by_tenant([i \in 1..Len(codigos) |->
                ConClaves(SAAI, codigos[i], t_tiendas[<<SAAI, codigos[i]>>])])
       ELSE <<>>

\* the items whose estado is ACTIVA
Activas(items) ==
    SelectSeq(items, LAMBDA item : Get(item, "estado", "None") = "ACTIVA")

\* orquestar_predicciones_diarias.obtener_tiendas_activas:
\* item['entity_id'] of every item with estado ACTIVA
obtener_tiendas_activas(items) ==
    IF \E i \in 1..Len(Activas(items)) : "entity_id" \notin DOMAIN Activas(items)[i]
    THEN [error |-> "KeyError"]
    ELSE [tiendas |-> [i \in 1..Len(Activas(items)) |-> Activas(items)[i].entity_id]]

\* json.dumps({'tenant_id': tenant_id}), one body per store
Mensajes(tiendas_activas) ==
    [i \in 1..Len(tiendas_activas) |-> [tenant_id |-> tiendas_activas[i]]]

RespuestaOrquestador(status, data) ==
    [handler |-> "orquestar_predicciones_diarias", status |-> status, data |-> data]

Pasadas ==
    SelectSeq(respuestas, LAMBDA r :
        r.handler \in {"orquestar_predicciones_diarias", "entrenar_modelos"})

\* the listing raises: the outer except answers 500 and nothing is sent
OrquestarFallaListado(listado) ==
    /\ EsError(listado)
    /\ respuestas' = Append(respuestas, RespuestaOrquestador(500, NoItem))
    /\ UNCHANGED sqs

\* no active store: success with tiendas_encoladas 0
OrquestarSinTiendas(listado) ==
    /\ ~ EsError(listado)
    /\ listado.tiendas = <<>>
    /\ respuestas' = Append(respuestas,
            RespuestaOrquestador(200, [tiendas_encoladas |-> 0]))
    /\ UNCHANGED sqs

\* one send_message per store, in the order of the listing
OrquestarEncola(listado) ==
    /\ ~ EsError(listado)
    /\ listado.tiendas # <<>>
    /\ sqs' = sqs \o Mensajes(listado.tiendas)
    /\ respuestas' = Append(respuestas,
            RespuestaOrquestador(200, [tiendas_encoladas |-> Len(listado.tiendas)]))

\* a send_message raises after some sends went through: the loop ends
\* there and the outer except answers 500
OrquestarFallaEnvio(listado) ==
    /\ ~ EsError(listado)
    /\ listado.tiendas # <<>>
    /\ \E enviados \in 0..(Len(listado.tiendas) - 1) :
          sqs' = sqs \o SubSeq(Mensajes(listado.tiendas), 1, enviados)
    /\ respuestas' = Append(respuestas, RespuestaOrquestador(500, NoItem))

Orquestar ==
    /\ Len(Pasadas) < MaxPasadas
    /\ \E consultado \in BOOLEAN :
          \/ OrquestarFallaListado(obtener_tiendas_activas(ItemsTiendas(consultado)))
          \/ OrquestarSinTiendas(obtener_tiendas_activas(ItemsTiendas(consultado)))
          \/ OrquestarEncola(obtener_tiendas_activas(ItemsTiendas(consultado)))
          \/ OrquestarFallaEnvio(obtener_tiendas_activas(ItemsTiendas(consultado)))
    /\ UNCHANGED <<reloj, puras, t_productos, t_ventas, t_predicciones, s3, sns,
                   ws, worker, origen, t_tiendas, resto>>

\* utils_ml.obtener_tiendas_activas: t['codigo_tienda'] of every item the
\* query filters on estado = ACTIVA
obtener_tiendas_activas_ml(items) ==
    IF \E i \in 1..Len(Activas(items)) : "codigo_tienda" \notin DOMAIN Activas(items)[i]
    THEN [error |-> "KeyError"]
    ELSE [tiendas |-> [i \in 1..Len(Activas(items)) |-> Activas(items)[i].codigo_tienda]]

\* the product codes of the lines of the sales, in order
RECURSIVE CodigosVendidos(_, _)
CodigosVendidos(ventas, i) ==
    IF i = 0 THEN <<>>
    ELSE CodigosVendidos(ventas, i - 1)
         \o [j \in 1..Len(SelectSeq(Get(ventas[i], "items", <<>>),
                              LAMBDA item : "codigo_producto" \in DOMAIN item)) |->
                SelectSeq(Get(ventas[i], "items", <<>>),
                          LAMBDA item : "codigo_producto" \in DOMAIN item)[j].codigo_producto]

\* the codes counted at least ventas_minimas times, in the order a dict
\* keeps them: that of their first appearance
ContadosDesde(codigos, ventas_minimas) ==
    LET primeros == SelectSeq([i \in 1..Len(codigos) |-> i],
                       LAMBDA i : /\ \A j \in 1..(i - 1) : codigos[j] # codigos[i]
                                  /\ Cardinality({j \in 1..Len(codigos) :
                                        codigos[j] = codigos[i]}) >= ventas_minimas)
    IN [k \in 1..Len(primeros) |-> codigos[primeros[k]]]

\* utils_ml.filtrar_productos_con_ventas
filtrar_productos_con_ventas(tenant_id, dias_minimo, ventas_minimas) ==
    LET fecha_limite == reloj - dias_minimo * 24
        ventas_recientes ==
            SelectSeq(query_by_tenant(t_ventas[tenant_id]),
                LAMBDA venta :
                    LET fecha == Get(venta, "fecha", FECHA_AUSENTE)
                    IN /\ fecha # FECHA_AUSENTE
                       /\ \/ fecha = FECHA_INVALIDA
                          \/ fecha * 24 >= fecha_limite)
    IN ContadosDesde(CodigosVendidos(ventas_recientes, Len(ventas_recientes)),
                     ventas_minimas)

\* the (tenant, product) pairs the loops of the handler go through
ProductosDeLaTienda(tenant_id, productos_activos) ==
    {<<tenant_id, productos_activos[j]>> : j \in 1..Len(productos_activos)}

ProductosDeLaCorrida(tenant_ids) ==
    UNION {ProductosDeLaTienda(tenant_ids[i],
                filtrar_productos_con_ventas(tenant_ids[i], DIAS_ACTIVIDAD_MINIMA,
                                             VENTAS_MINIMAS_ENTRENAMIENTO)) :
           i \in 1..Len(tenant_ids)}

\* the pairs for which entrenar_producto reaches the fit
Entrenables(productos) ==
    {x \in productos : DatosParaEntrenar(x[1], x[2]) = "Serie"}

\* the bucket after guardar_modelo_s3 for every model fitted
ModelosGuardados(modelos) ==
    [k \in DOMAIN s3 \cup {<<S3_BUCKET, x[1], x[2]>> : x \in DOMAIN modelos} |->
        IF \E x \in DOMAIN modelos : k = <<S3_BUCKET, x[1], x[2]>>
        THEN modelos[<<k[2], k[3]>>]
        ELSE s3[k]]

\* publicar_alerta_errores: the call of sns.publish when a product failed
AlertaErrores(total_errores, entregado) ==
    IF total_errores > 0
    THEN SetToBag({[tipo |-> "entrenamientoErrores", severity |-> "WARNING",
                    via |-> "entrenar_modelos", total_errores |-> total_errores,
                    entregado |-> entregado]})
    ELSE EmptyBag

RespuestaEntrenamiento(status, body) ==
    [handler |-> "entrenar_modelos", status |-> status, body |-> body]

\* the listing raises: the outer except answers 500 and no store is trained
EntrenarFallaListado(listado) ==
    /\ EsError(listado)
    /\ respuestas' = Append(respuestas, RespuestaEntrenamiento(500, NoItem))
    /\ UNCHANGED <<s3, sns, ws>>

\* the loops over the stores and their products: a product whose fit or
\* whose upload raises, or that lacks data, is counted as failed
EntrenarCorrida(tenant_ids, productos, entrenables) ==
    \E logrados \in SUBSET entrenables, entregado \in BOOLEAN :
        /\ \E modelos \in [logrados -> ModelosEntrenables] :
              s3' = ModelosGuardados(modelos)
        /\ sns' = sns (+) AlertaErrores(Cardinality(productos) - Cardinality(logrados),
                                        entregado)
        /\ ws' = ws + 1
        /\ respuestas' = Append(respuestas,
              RespuestaEntrenamiento(200,
                  [modelos_entrenados |-> Cardinality(logrados),
                   modelos_fallidos |-> Cardinality(productos) - Cardinality(logrados),
                   tiendas_procesadas |-> Len(tenant_ids)]))

EntrenarTiendas(listado) ==
    /\ ~ EsError(listado)
    /\ EntrenarCorrida(listado.tiendas, ProductosDeLaCorrida(listado.tiendas),
                       Entrenables(ProductosDeLaCorrida(listado.tiendas)))

Entrenar ==
    /\ Len(Pasadas) < MaxPasadas
    /\ \E consultado \in BOOLEAN :
          \/ EntrenarFallaListado(obtener_tiendas_activas_ml(ItemsTiendas(consultado)))
          \/ EntrenarTiendas(obtener_tiendas_activas_ml(ItemsTiendas(consultado)))
    /\ UNCHANGED <<reloj, puras, t_productos, t_ventas, t_predicciones, worker,
                   origen, orquestacion, resto>>

Registros == SelectSeq(respuestas, LAMBDA r : r.handler = "registrar_tienda")

\* POST /tiendas by a SAAI user with a valid body: the store is written
\* ACTIVA under the generated code, which the counter or, failing that,
\* random.randint provides
RegistrarTienda ==
    /\ Len(Registros) < MaxTiendasNuevas
    /\ \E codigo_tienda \in Tenants, aceptado \in BOOLEAN :
          /\ t_tiendas' = put_item_standard(t_tiendas, SAAI, codigo_tienda,
                  Tienda(codigo_tienda, "ACTIVA")
                      @@ [created_at |-> reloj - PERU_UTC_OFFSET,
                          updated_at |-> reloj - PERU_UTC_OFFSET],
                  aceptado)
          /\ respuestas' = Append(respuestas,
                  [handler |-> "registrar_tienda", status |-> 200,
                   codigo_tienda |-> codigo_tienda])
    /\ UNCHANGED <<reloj, puras, t_productos, t_ventas, t_predicciones, s3, sns,
                   ws, worker, origen, sqs, resto>>

\* the store tables the runs start from
TiendasIniciales ==
    {<<>>,
     TiendasBase,
     (<<SAAI, "T1">> :> TiendaConClave("T1", "ACTIVA"))
        @@ (<<SAAI, "T2">> :> TiendaConClave("T2", "SUSPENDIDA"))
        @@ (<<SAAI, "T3">> :> TiendaConClave("T3", "ACTIVA"))
        @@ (<<SAAI, "T4">> :> Tienda("T4", "ELIMINADA")),
     (<<SAAI, "T1">> :> Tienda("T1", "ACTIVA"))
        @@ (<<SAAI, "T2">> :> TiendaConClave("T2", "ACTIVA")),
     (<<SAAI, "T1">> :> TiendaConClave("T1", "INACTIVO"))
        @@ (<<SAAI, "T2">> :> TiendaSinCodigo("T2", "ACTIVA"))}

InitOrquestacion ==
    /\ reloj = RelojInicial
    /\ caso = <<>>
    /\ llamadas = <<>>
    /\ InitSistema
    /\ t_tiendas \in TiendasIniciales

NextOrquestacion == Orquestar \/ Entrenar \/ RegistrarTienda

SpecOrquestacion == InitOrquestacion /\ [][NextOrquestacion]_vars

(***************************************************************************)
(* The environment: time passes, DynamoDB deletes expired items.           *)
(***************************************************************************)
PasarMedioDia ==
    /\ reloj < RelojInicial + MaxMedioDia * 12
    /\ reloj' = reloj + 12
    /\ UNCHANGED <<puras, sistema>>

\* the TTL attribute: items whose ttl has passed are removed
Vencidas == {k \in DOMAIN t_predicciones : t_predicciones[k].ttl <= reloj}

ExpirarTTL ==
    /\ Vencidas # {}
    /\ t_predicciones' = [k \in DOMAIN t_predicciones \ Vencidas |-> t_predicciones[k]]
    /\ origen' = [k \in DOMAIN origen \ Vencidas |-> origen[k]]
    /\ UNCHANGED <<reloj, puras, orquestacion, resto, t_productos, t_ventas, s3, sns, ws, worker, respuestas>>

\* the on-demand path with the sales and the passing of time
NextDemanda ==
    \/ PrediccionDemanda
    \/ RegistrarVenta
    \/ PasarMedioDia
    \/ ExpirarTTL

SpecDemanda == Init /\ [][NextDemanda]_vars

\* the batch worker and the passing of time
NextLote ==
    \/ WorkerRecibir
    \/ WorkerListarFalla
    \/ WorkerSinProductos
    \/ WorkerListar
    \/ WorkerProductoFalla
    \/ WorkerProductoOmitido
    \/ WorkerProductoPredicho
    \/ WorkerEmitir
    \/ WorkerRetornar
    \/ PasarMedioDia

SpecLote == Init /\ [][NextLote]_vars

\* the batch worker with redelivery of its event: nothing but the worker and
\* the clock moves, so sales, stock and models stay as they were
NextDuplicado ==
    \/ WorkerRecibirEntrega
    \/ WorkerListarFalla
    \/ WorkerSinProductos
    \/ WorkerListar
    \/ WorkerProductoFalla
    \/ WorkerProductoOmitido
    \/ WorkerProductoPredicho
    \/ WorkerEmitir
    \/ WorkerRetornar
    \/ PasarMedioDia

\* a product sold once a week in quantity and little on the day before
HistoriaSemanal ==
    [i \in 1..(MIN_VENTAS_PREDICCION + 1) |->
        [cantidad_vendida |-> IF i % 2 = 0 THEN MaxCantidad ELSE 1,
         fecha_venta |-> DiaInicial + 2 - 7 * ((i + 1) \div 2) - (i % 2)]]

InitDuplicado ==
    /\ reloj = RelojInicial
    /\ caso = <<>>
    /\ llamadas = <<>>
    /\ sqs = <<>>
    /\ otra = [pc |-> "espera"]
    /\ t_tokens = <<>>
    /\ t_tiendas = TiendasBase
    /\ t_productos = ProductosIniciales
    /\ t_ventas = [t \in Tenants |->
                     IF t = "T1" THEN VentasT1
                     ELSE IF t = "T2" THEN VentasT2 \o VentasLegadas("PC", HistoriaSemanal)
                     ELSE <<>>]
    /\ t_predicciones = <<>>
    /\ s3 = (<<BUCKET_MODELOS, "T2", "PA">> :> ModeloBajo)
    /\ sns = EmptyBag
    /\ ws = 0
    /\ worker = [pc |-> "espera"]
    /\ respuestas = <<>>
    /\ origen = <<>>

SpecDuplicado == InitDuplicado /\ [][NextDuplicado]_vars

(***************************************************************************)
(* Authentication: login stores the user's token in the table of the       *)
(* user's role, and the Lambda authorizer checks the token of a request    *)
(* against it.  A token is the record of what it encodes; firma is the     *)
(* secret it was signed with.                                              *)
(***************************************************************************)
JWT_SECRET == "saai-secret"
JWT_AUDIENCE == "SAAI-Frontend"
JWT_EXPIRES_IN_HORAS == 24

MaxLogins == 2
MaxAutorizaciones == 1

\* the users whose credentials validar_credenciales accepts
Usuarios ==
    {[codigo_usuario |-> "U1", tenant_id |-> "T1", rol |-> "ADMIN"],
     [codigo_usuario |-> "U2", tenant_id |-> "T1", rol |-> "TRABAJADOR"]}

\* the paths of the requests
Rutas == {"/productos", "/gastos"}

generar_token_jwt(codigo_usuario, codigo_tienda, rol, ahora) ==
    [firma |-> JWT_SECRET, aud |-> JWT_AUDIENCE,
     iat |-> ahora, exp |-> ahora + JWT_EXPIRES_IN_HORAS,
     codigo_usuario |-> codigo_usuario, tenant_id |-> codigo_tienda, rol |-> rol]

\* verificar_token_jwt: the payload, or None
verificar_token_jwt(token, ahora) ==
    IF token.firma # JWT_SECRET THEN NoItem
    ELSE IF token.exp <= ahora THEN NoItem
    ELSE IF token.aud # JWT_AUDIENCE THEN NoItem
    ELSE IF token.rol \notin {"TRABAJADOR", "ADMIN", "SAAI"} THEN NoItem
    ELSE token

obtener_tabla_tokens_por_rol(rol) ==
    IF rol \in {"TRABAJADOR", "worker"} THEN "t_tokens_trabajadores"
    ELSE IF rol \in {"ADMIN", "admin"} THEN "t_tokens_administradores"
    ELSE "t_tokens_saai"

ClaveToken(tenant_id, codigo_usuario, rol) ==
    <<obtener_tabla_tokens_por_rol(rol), tenant_id, codigo_usuario>>

\* validar_token_en_base_datos: the record read (None when it is missing or
\* the read fails) against the token presented
validar_token_en_base_datos(token, token_data, ahora) ==
    IF token_data = NoItem THEN FALSE
    ELSE IF token_data.token # token /\ token_data.estado = "ACTIVO" THEN FALSE
    ELSE IF ahora > token_data.expira_en THEN FALSE
    ELSE TRUE

validar_restricciones_adicionales(rol, path) ==
    IF rol = "TRABAJADOR" THEN path \notin {"/gastos", "/analytics", "/reportes"}
    ELSE IF rol = "ADMIN" THEN path # "/tiendas"
    ELSE IF rol = "SAAI" THEN path \in {"/tiendas", "/notificacion"}
    ELSE TRUE

\* the effect of the policy the authorizer returns
EfectoAuthorizer(token, path, token_data) ==
    IF token = NoItem THEN "Deny"
    ELSE IF verificar_token_jwt(token, reloj) = NoItem THEN "Deny"
    ELSE IF ~ validar_token_en_base_datos(token, token_data, reloj) THEN "Deny"
    ELSE IF ~ validar_restricciones_adicionales(token.rol, path) THEN "Deny"
    ELSE "Allow"

\* get_item_standard on the table of the token's role
TokenLeido(token, leido) ==
    IF leido /\ ClaveToken(token.tenant_id, token.codigo_usuario, token.rol)
                    \in DOMAIN t_tokens
    THEN t_tokens[ClaveToken(token.tenant_id, token.codigo_usuario, token.rol)]
    ELSE NoItem

\* the tokens a client can present: those a login returned, the same signed
\* with another secret, and none
Entregados ==
    {respuestas[i].token : i \in
        {j \in 1..Len(respuestas) :
            respuestas[j].handler = "login" /\ respuestas[j].status = 200}}

Presentables ==
    Entregados \cup {[t EXCEPT !.firma = "otro-secreto"] : t \in Entregados} \cup {NoItem}

RespuestasDe(handler) ==
    {i \in 1..Len(respuestas) : respuestas[i].handler = handler}

\* authorizer.handler
Autorizar ==
    /\ Cardinality(RespuestasDe("authorizer")) < MaxAutorizaciones
    /\ \E token \in Presentables, path \in Rutas, leido \in BOOLEAN :
          respuestas' = Append(respuestas,
              [handler |-> "authorizer", token |-> token, path |-> path,
               effect |-> EfectoAuthorizer(token, path,
                             IF token = NoItem THEN NoItem ELSE TokenLeido(token, leido))])
    /\ UNCHANGED <<reloj, puras, orquestacion, resto, t_productos, t_ventas, t_predicciones,
                   s3, sns, ws, worker, origen>>

\* update_item_standard with the fields of invalidar_token: the stored data
\* merged with them
Invalidado(tabla, clave, motivo, aceptado) ==
    IF aceptado /\ clave \in DOMAIN tabla
    THEN [tabla EXCEPT ![clave] =
            [estado |-> "INACTIVO", fecha_invalidacion |-> reloj - PERU_UTC_OFFSET,
             motivo_invalidacion |-> motivo, updated_at |-> reloj - PERU_UTC_OFFSET]
            @@ tabla[clave]]
    ELSE tabla

\* guardar_token_activo: the record put under (tenant, user)
TokenActivo(token, usuario_info) ==
    [token |-> token, codigo_usuario |-> usuario_info.codigo_usuario,
     tenant_id |-> usuario_info.tenant_id, rol |-> usuario_info.rol,
     estado |-> "ACTIVO", generado_en |-> reloj - PERU_UTC_OFFSET,
     expira_en |-> reloj + JWT_EXPIRES_IN_HORAS,
     created_at |-> reloj - PERU_UTC_OFFSET, updated_at |-> reloj - PERU_UTC_OFFSET]

Guardado(tabla, clave, data, aceptado) ==
    IF aceptado
    THEN [k \in DOMAIN tabla \cup {clave} |-> IF k = clave THEN data ELSE tabla[k]]
    ELSE tabla

\* login.handler for valid input: the credentials are rejected, or the
\* previous token is invalidated, a new one generated and stored
Login ==
    /\ Cardinality(RespuestasDe("login")) < MaxLogins
    /\ \E usuario_info \in Usuarios, credenciales \in BOOLEAN,
          invalidado \in BOOLEAN, aceptado \in BOOLEAN :
          LET clave == ClaveToken(usuario_info.tenant_id, usuario_info.codigo_usuario,
                                  usuario_info.rol)
              token_jwt == generar_token_jwt(usuario_info.codigo_usuario,
                               usuario_info.tenant_id, usuario_info.rol, reloj)
          IN IF ~ credenciales
             THEN /\ respuestas' = Append(respuestas,
                        [handler |-> "login", status |-> 401])
                  /\ t_tokens' = t_tokens
             ELSE /\ t_tokens' = Guardado(
                        Invalidado(t_tokens, clave, "LOGOUT_GLOBAL", invalidado),
                        clave, TokenActivo(token_jwt, usuario_info), aceptado)
                  /\ respuestas' = Append(respuestas,
                        IF aceptado
                        THEN [handler |-> "login", status |-> 200, token |-> token_jwt]
                        ELSE [handler |-> "login", status |-> 500])
    /\ UNCHANGED <<reloj, puras, orquestacion, otra, t_productos, t_ventas, t_predicciones,
                   s3, sns, ws, worker, origen>>

\* token_manager.invalidar_token on a stored record
InvalidarToken ==
    /\ \E clave \in DOMAIN t_tokens, aceptado \in BOOLEAN :
          /\ t_tokens[clave].estado = "ACTIVO"
          /\ t_tokens' = Invalidado(t_tokens, clave, "LOGOUT_MANUAL", aceptado)
    /\ UNCHANGED <<reloj, puras, orquestacion, otra, t_productos, t_ventas, t_predicciones,
                   s3, sns, ws, worker, respuestas, origen>>

NextAutorizacion ==
    \/ Login
    \/ InvalidarToken
    \/ Autorizar
    \/ PasarMedioDia

SpecAutorizacion == Init /\ [][NextAutorizacion]_vars

(***************************************************************************)
(* The two trainings side by side: the nightly entrenar_modelos and the    *)
(* training on demand of prediccion_demanda.                               *)
(***************************************************************************)
\* thirty sales of a product over fifteen days, two a day
HistoriaDoble ==
    Historia(MIN_REGISTROS_ENTRENAMIENTO \div 2, 1, 1, DiaInicial)
    \o Historia(MIN_REGISTROS_ENTRENAMIENTO \div 2, 1, 1, DiaInicial)

ConsultasEntrenamiento == Consultas \cup {<<"T2", "PC">>}

MaxSolicitudesEntrenamiento == 1

PrediccionDemandaEntrenamiento ==
    /\ Len(Solicitudes) < MaxSolicitudesEntrenamiento
    /\ \E consulta \in ConsultasEntrenamiento :
          \/ PrediccionDemandaHit(consulta[1], consulta[2])
          \/ PrediccionDemandaSinDatos(consulta[1], consulta[2])
          \/ PrediccionDemandaError(consulta[1], consulta[2])
          \/ PrediccionDemandaMiss(consulta[1], consulta[2])

InitEntrenamiento ==
    /\ reloj = RelojInicial
    /\ caso = <<>>
    /\ llamadas = <<>>
    /\ sqs = <<>>
    /\ otra = [pc |-> "espera"]
    /\ t_tokens = <<>>
    /\ t_tiendas = TiendasBase
    /\ t_productos = ProductosIniciales
    /\ t_ventas = [t \in Tenants |->
                     IF t = "T1" THEN VentasT1
                     ELSE IF t = "T2" THEN VentasT2 \o VentasLegadas("PC", HistoriaDoble)
                     ELSE <<>>]
    /\ t_predicciones = <<>>
    /\ s3 = (<<S3_BUCKET, "T1", "PC">> :> ModeloAlto)
    /\ sns = EmptyBag
    /\ ws = 0
    /\ worker = [pc |-> "espera"]
    /\ respuestas = <<>>
    /\ origen = <<>>

NextEntrenamiento ==
    \/ Entrenar
    \/ PrediccionDemandaEntrenamiento

SpecEntrenamiento == InitEntrenamiento /\ [][NextEntrenamiento]_vars

\* two invocations of the batch worker interleaved step by step
NextConcurrente ==
    \/ WorkerRecibirConcurrente
    \/ Conmutar
    \/ WorkerListarFalla
    \/ WorkerSinProductos
    \/ WorkerListar
    \/ WorkerProductoFalla
    \/ WorkerProductoOmitido
    \/ WorkerCalcula
    \/ WorkerGuarda
    \/ WorkerEmitir
    \/ WorkerRetornar
    \/ PasarMedioDia

InitConcurrente ==
    /\ reloj = RelojInicial
    /\ caso = <<>>
    /\ llamadas = <<>>
    /\ sqs = <<>>
    /\ otra = [pc |-> "espera"]
    /\ t_tokens = <<>>
    /\ t_tiendas = TiendasBase
    /\ t_productos = ProductosIniciales
    /\ t_ventas = [t \in Tenants |-> IF t = "T1" THEN VentasT1
                                     ELSE IF t = "T2" THEN VentasT2 ELSE <<>>]
    /\ t_predicciones = <<>>
    /\ s3 = <<>>
    /\ sns = EmptyBag
    /\ ws = 0
    /\ worker = [pc |-> "espera"]
    /\ respuestas = <<>>
    /\ origen = <<>>

SpecConcurrente == InitConcurrente /\ [][NextConcurrente]_vars

\* the two writers of the prediction table side by side
NextPredicciones ==
    \/ PrediccionDemanda
    \/ WorkerRecibir
    \/ WorkerListarFalla
    \/ WorkerSinProductos
    \/ WorkerListar
    \/ WorkerProductoFalla
    \/ WorkerProductoOmitido
    \/ WorkerProductoPredicho
    \/ WorkerEmitir
    \/ WorkerRetornar

SpecPredicciones == Init /\ [][NextPredicciones]_vars

\* the whole system
Next ==
    \/ NextDemanda
    \/ NextLote

Spec == Init /\ [][Next]_vars

(***************************************************************************)
(* Properties of the batch worker.                                         *)
(***************************************************************************)
\* the active products of a tenant, read from the table itself
ActivosDe(tenant_id) ==
    {k[2] : k \in {x \in DOMAIN t_productos :
                      x[1] = tenant_id /\ t_productos[x].estado # "INACTIVO"}}

Anotados(registro, resultados) ==
    {i \in 1..Len(worker.bitacora) :
        /\ worker.bitacora[i].registro = registro
        /\ worker.bitacora[i].resultado \in resultados}

\* C2: a failure raised while handling one product is caught, counted as
\* omitted and skipped: it never ends the invocation, and when the handler
\* returns every active product of every record delivered has been handled
\* and every tenant with products has had its event.
C2_FalloDeProductoAislado ==
    /\ worker.pc = "error" =>
          \/ /\ worker.r <= Len(worker.records)
             /\ \E p \in ActivosDe(worker.records[worker.r]) :
                   "entity_id" \notin DOMAIN t_productos[<<worker.records[worker.r], p>>]
          \/ /\ worker.r > Len(worker.records)
             /\ \A i \in 1..Len(worker.records) : ActivosDe(worker.records[i]) = {}
    /\ worker.pc \in {"producto", "evento"} =>
          worker.estadisticas.productos_omitidos =
              Cardinality(Anotados(worker.r, {"FALLO", "OMITIDO"}))
    /\ worker.pc = "hecho" =>
          \A i \in 1..Len(worker.records) :
             /\ \A p \in ActivosDe(worker.records[i]) :
                   \E j \in Anotados(i, {"FALLO", "OMITIDO", "PREDICHO"}) :
                      worker.bitacora[j].codigo_producto = p
             /\ ActivosDe(worker.records[i]) # {} =>
                   \E j \in 1..Len(worker.emitidos) : worker.emitidos[j] = worker.records[i]

\* the invocation returned although a product of its first record failed,
\* and the products after it and the next tenant were handled
C2_Witness ==
    /\ worker.pc = "hecho"
    /\ worker.records = <<"T1", "T2">>
    /\ \E i, j, k \in 1..Len(worker.bitacora) :
          /\ i < j /\ j < k
          /\ worker.bitacora[i].resultado = "FALLO"
          /\ worker.bitacora[i].tenant_id = "T1"
          /\ worker.bitacora[j].resultado = "PREDICHO"
          /\ worker.bitacora[j].tenant_id = "T1"
          /\ worker.bitacora[k].resultado = "PREDICHO"
          /\ worker.bitacora[k].tenant_id = "T2"

\* the worker's bucket holds a model of the product that loads
HayModeloLote(tenant_id, codigo_producto) ==
    cargar_modelo_s3_batch(tenant_id, codigo_producto) # NoItem

C4_MetodoVeraz ==
    \A k \in DOMAIN t_predicciones :
        /\ "metodo" \in DOMAIN t_predicciones[k]
        /\ (t_predicciones[k].metodo = "HOLT_WINTERS") <=> (origen[k].algoritmo = "FORECAST")
        /\ (t_predicciones[k].metodo = "WEIGHTED_AVERAGE") <=> (origen[k].algoritmo = "FORMULA")
        /\ origen[k].algoritmo = "FORECAST" =>
              /\ "confianza" \in DOMAIN t_predicciones[k]
              /\ t_predicciones[k].confianza = CONFIANZA_HOLT_WINTERS

\* the step is a response of the on-demand handler
RespondeDemanda ==
    /\ Len(respuestas') = Len(respuestas) + 1
    /\ respuestas'[Len(respuestas')].handler = "prediccion_demanda"

\* the step is a response of the sale handler
RespondeVenta ==
    /\ Len(respuestas') = Len(respuestas) + 1
    /\ respuestas'[Len(respuestas')].handler = "registrar_venta"

\* the live entry of the table for a triple, if there is one
EntradaViva(tabla, tenant_id, codigo_producto, fecha) ==
    /\ <<tenant_id, <<codigo_producto, fecha>>>> \in DOMAIN tabla
    /\ tabla[<<tenant_id, <<codigo_producto, fecha>>>>].estado = "ACTIVO"

MismaConsulta(a, b) ==
    /\ a.handler = "prediccion_demanda"
    /\ b.handler = "prediccion_demanda"
    /\ a.tenant_id = b.tenant_id
    /\ a.codigo_producto = b.codigo_producto
    /\ a.fecha = b.fecha

\* C5: a request that finds a live entry for (tenant, product, today)
\* answers with the stored demand values and changes nothing: no model is
\* stored, nothing is written to the prediction table, nothing is
\* published, no event is emitted; a hit returns the payload of every
\* earlier hit on the same key unless the entry was written in between.
C5_HitEsLecturaPura ==
    [][RespondeDemanda =>
        LET nueva == respuestas'[Len(respuestas')]
        IN EntradaViva(t_predicciones, nueva.tenant_id, nueva.codigo_producto, nueva.fecha) =>
            LET entrada == t_predicciones[<<nueva.tenant_id,
                                            <<nueva.codigo_producto, nueva.fecha>>>>]
            IN /\ nueva.status = 200
               /\ nueva.cache = "HIT"
               /\ nueva.data.demanda_manana = entrada.demanda_manana
               /\ nueva.data.demanda_proxima_semana = entrada.demanda_proxima_semana
               /\ UNCHANGED <<t_predicciones, s3, sns, ws, t_productos, t_ventas, origen>>
               /\ \A i \in 1..Len(respuestas) :
                     (/\ MismaConsulta(respuestas[i], nueva)
                      /\ respuestas[i].cache = "HIT"
                      /\ \A j \in (i + 1)..Len(respuestas) :
                            ~ (MismaConsulta(respuestas[j], nueva)
                               /\ respuestas[j].cache = "MISS"
                               /\ respuestas[j].status = 200))
                     => respuestas[i].data = nueva.data
    ]_vars

\* a miss that stored its result, then two hits on it
C5_Witness ==
    /\ Len(respuestas) = 3
    /\ respuestas[1].handler = "prediccion_demanda"
    /\ respuestas[1].cache = "MISS"
    /\ respuestas[1].status = 200
    /\ respuestas[2].handler = "prediccion_demanda"
    /\ respuestas[2].cache = "HIT"
    /\ respuestas[3].handler = "prediccion_demanda"
    /\ respuestas[3].cache = "HIT"
    /\ respuestas[3].data = respuestas[2].data
    /\ respuestas[3].data.demanda_proxima_semana > 0

\* C6: a request that misses the cache and answers with success leaves a
\* live entry (estado ACTIVO, with a ttl) for (tenant, product, today)
\* holding the values it returned.
C6_MissPueblaCache ==
    [][RespondeDemanda =>
        LET nueva == respuestas'[Len(respuestas')]
        IN (nueva.cache = "MISS" /\ nueva.status = 200) =>
            /\ EntradaViva(t_predicciones', nueva.tenant_id, nueva.codigo_producto, nueva.fecha)
            /\ LET entrada == t_predicciones'[<<nueva.tenant_id,
                                               <<nueva.codigo_producto, nueva.fecha>>>>]
               IN /\ "ttl" \in DOMAIN entrada
                  /\ entrada.demanda_manana = nueva.data.demanda_manana
                  /\ entrada.demanda_proxima_semana = nueva.data.demanda_proxima_semana
    ]_vars

\* the calendar date a stored prediction was made for
FechaDe(k) ==
    IF Len(k[2]) = 2 THEN k[2][2]
    ELSE t_predicciones[k].fecha_prediccion \div 24

\* C7: both paths store a prediction under (tenant, product, date), so
\* the table never holds two live predictions for the same triple: the
\* later write replaces the earlier one, whichever path made it.
C7_UnaPorTenantProductoFecha ==
    \A k1, k2 \in DOMAIN t_predicciones :
        (/\ k1[1] = k2[1]
         /\ k1[2][1] = k2[2][1]
         /\ FechaDe(k1) = FechaDe(k2)
         /\ t_predicciones[k1].estado = "ACTIVO"
         /\ t_predicciones[k2].estado = "ACTIVO")
        => k1 = k2

\* C8: registering a sale leaves the prediction table as it was, and a hit
\* that follows a sale returns what the same key returned before the sale.
C8_VentaNoTocaPredicciones ==
    [][/\ RespondeVenta => UNCHANGED <<t_predicciones, origen>>
       /\ RespondeDemanda =>
            LET nueva == respuestas'[Len(respuestas')]
            IN nueva.cache = "HIT" =>
                 \A i \in 1..Len(respuestas) :
                    (/\ MismaConsulta(respuestas[i], nueva)
                     /\ respuestas[i].status = 200
                     /\ \E j \in (i + 1)..Len(respuestas) :
                           /\ respuestas[j].handler = "registrar_venta"
                           /\ respuestas[j].status = 200)
                    => respuestas[i].data = nueva.data
    ]_vars

\* a prediction is cached, the product is sold, the prediction is served
C8_Witness ==
    /\ Len(respuestas) = 3
    /\ respuestas[1].handler = "prediccion_demanda"
    /\ respuestas[1].codigo_producto = "PA"
    /\ respuestas[1].status = 200
    /\ respuestas[2].handler = "registrar_venta"
    /\ respuestas[2].status = 200
    /\ t_productos[<<"T1", "PA">>].stock = 0
    /\ respuestas[3].handler = "prediccion_demanda"
    /\ respuestas[3].cache = "HIT"
    /\ respuestas[3].data = respuestas[1].data

(***************************************************************************)
(* Properties of the pure functions.                                       *)
(***************************************************************************)
NivelesAlerta == {"STOCK_CRITICO_MANANA", "STOCK_BAJO_SEMANA", "STOCK_SUFICIENTE"}

\* C1: for every integer triple (stock, tomorrow, week) calcular_alerta
\* returns exactly one of the three levels: critical exactly when
\* stock < tomorrow, low-for-the-week exactly when stock >= tomorrow and
\* stock < week, sufficient exactly when stock >= tomorrow and stock >= week.
C1_AlertaTotalYExclusiva ==
    \A i \in 1..Len(llamadas) :
        "alerta" \in DOMAIN llamadas[i] =>
            LET c == llamadas[i].caso
                a == llamadas[i].alerta
            IN /\ a \in NivelesAlerta
               /\ (a = "STOCK_CRITICO_MANANA") <=> (c.stock_actual < c.demanda_manana)
               /\ (a = "STOCK_BAJO_SEMANA") <=>
                      (c.stock_actual >= c.demanda_manana /\ c.stock_actual < c.demanda_semana)
               /\ (a = "STOCK_SUFICIENTE") <=>
                      (c.stock_actual >= c.demanda_manana /\ c.stock_actual >= c.demanda_semana)

\* the boundary case: stock equal to tomorrow's demand and below the week's
C1_Witness ==
    \E i \in 1..Len(llamadas) :
        /\ "alerta" \in DOMAIN llamadas[i]
        /\ llamadas[i].caso.stock_actual = llamadas[i].caso.demanda_manana
        /\ llamadas[i].caso.stock_actual < llamadas[i].caso.demanda_semana
        /\ llamadas[i].alerta = "STOCK_BAJO_SEMANA"

\* C9: the confidence of the weighted-average fallback is min(n / 30, 1)
\* rounded to two decimals (kept here in hundredths): it is 1.0 from 30
\* records on, the nearest hundredth to n / 30 below that, and it never
\* decreases when the history grows.
C9_ConfianzaPorVolumen ==
    \A i \in 1..Len(llamadas) :
        "resultado" \in DOMAIN llamadas[i] =>
            /\ ~ EsError(llamadas[i].resultado)
            /\ LET n == llamadas[i].n
                   c == llamadas[i].resultado.confianza
               IN /\ c \in 0..100
                  /\ n >= 30 => c = 100
                  /\ n < 30 => (3 * c - 10 * n) \in (0 - 1)..1
            /\ \A j \in 1..Len(llamadas) :
                   llamadas[j].n >= llamadas[i].n =>
                       llamadas[j].resultado.confianza >= llamadas[i].resultado.confianza

\* a history below the threshold and one above it were both evaluated
C9_Witness ==
    /\ Len(llamadas) = 2
    /\ "resultado" \in DOMAIN llamadas[1]
    /\ llamadas[1].n < 30
    /\ llamadas[1].resultado.confianza < 100
    /\ llamadas[2].n > 30
    /\ llamadas[2].resultado.confianza = 100

\* C10 as stated: the same history gives the same tomorrow, week and
\* confidence whatever the moment of the call.
C10_MismoResultadoSiempre ==
    \A i, j \in 1..Len(llamadas) :
        ("resultado" \in DOMAIN llamadas[i] /\ "resultado" \in DOMAIN llamadas[j]) =>
            llamadas[i].resultado = llamadas[j].resultado

\* C10 amended: the same history gives the same confidence and method at
\* any moment, and the same tomorrow and week whenever the local dates of
\* the two calls are a whole number of weeks apart.
C10_MismoResultadoMismoDiaSemana ==
    \A i, j \in 1..Len(llamadas) :
        ("resultado" \in DOMAIN llamadas[i] /\ "resultado" \in DOMAIN llamadas[j]
            /\ ~ EsError(llamadas[i].resultado)) =>
            /\ ~ EsError(llamadas[j].resultado)
            /\ llamadas[i].resultado.confianza = llamadas[j].resultado.confianza
            /\ llamadas[i].resultado.metodo = llamadas[j].resultado.metodo
            /\ ((llamadas[i].ahora \div 24) - (llamadas[j].ahora \div 24)) % 7 = 0 =>
                   llamadas[i].resultado = llamadas[j].resultado

\* two calls exactly one week apart on a history whose weekdays differ
C10_Witness ==
    /\ Len(llamadas) = 2
    /\ "resultado" \in DOMAIN llamadas[1]
    /\ llamadas[2].ahora = llamadas[1].ahora + 7 * 24
    /\ llamadas[1].n >= 7
    /\ llamadas[1].resultado.demanda_manana > 0
    /\ llamadas[1].resultado = llamadas[2].resultado

(***************************************************************************)
(* Properties of the weighted-average formula.                             *)
(***************************************************************************)
\* two rationals are the same number
RatIgual(x, y) == BigMul(RatNum(x), RatDen(y)) = BigMul(RatNum(y), RatDen(x))

\* the calls of SpecFormula, which record the locals
LlamadasFormula == {i \in 1..Len(llamadas) : "locales" \in DOMAIN llamadas[i]}

\* every record of the history has the quantity q
TodasDe(ventas, q) == \A k \in 1..Len(ventas) : ventas[k].cantidad_vendida = q

\* C11: on a non-empty history whose records all have the same quantity
\* q > 0, calcular_prediccion_simple computes demanda_base = q and a factor
\* of 1 for each of the seven weekdays, and returns demanda_manana = q,
\* demanda_proxima_semana = 7q and the method WEIGHTED_AVERAGE; with 10
\* records of quantity 3 that is 3, 21 and a confidence of 0.33.
C11_HistoriaConstante ==
    \A i \in LlamadasFormula :
        LET c == llamadas[i]
            q == c.ventas[1].cantidad_vendida
        IN (q > 0 /\ TodasDe(c.ventas, q)) =>
              /\ ~ EsError(c.resultado)
              /\ RatIgual(c.locales.demanda_base, RatOfInt(q))
              /\ \A dia \in 0..6 : RatIgual(c.locales.factor_dia[dia], RatOfInt(1))
              /\ c.resultado.demanda_manana = q
              /\ c.resultado.demanda_proxima_semana = 7 * q
              /\ c.resultado.metodo = "WEIGHTED_AVERAGE"
              /\ (Len(c.ventas) = 10 /\ q = 3) => c.resultado.confianza = 33

\* ten records of quantity 3, a week apart: six weekdays never observed
C11_Witness ==
    \E i \in LlamadasFormula :
        /\ Len(llamadas[i].ventas) = 10
        /\ TodasDe(llamadas[i].ventas, 3)
        /\ llamadas[i].ventas[2].fecha_venta = llamadas[i].ventas[1].fecha_venta + 7
        /\ llamadas[i].resultado.demanda_manana = 3
        /\ llamadas[i].resultado.demanda_proxima_semana = 21
        /\ llamadas[i].resultado.confianza = 33

\* the records of a history that fall on weekday dia
RegistrosDelDia(ventas, dia) ==
    {k \in 1..Len(ventas) : ventas[k].fecha_venta % 7 = dia}

\* average quantity of the records of weekday dia, as a rational
PromedioDelDia(ventas, dia) ==
    RatOfFrac(SumaCantidades(ventas, dia, Len(ventas)),
              Cardinality(RegistrosDelDia(ventas, dia)))

\* C12 as stated: for every weekday with at least one record the quotient
\* average(quantity on that weekday) / demanda_base exists and is the
\* factor of that weekday; for every weekday with no record the factor is 1.
C12_FactorEsCociente ==
    \A i \in LlamadasFormula : \A dia \in 0..6 :
        LET c == llamadas[i]
        IN IF RegistrosDelDia(c.ventas, dia) # {}
           THEN /\ RatIsPos(c.locales.demanda_base)
                /\ RatIgual(RatMul(c.locales.factor_dia[dia], c.locales.demanda_base),
                            PromedioDelDia(c.ventas, dia))
           ELSE RatIgual(c.locales.factor_dia[dia], RatOfInt(1))

\* C12 amended: while demanda_base > 0 the factor of a weekday with records
\* is average(quantity on that weekday) / demanda_base; it is 1 for a
\* weekday with no record and, when demanda_base is 0 (a history of null
\* quantities), for every weekday.  The forecast for a tomorrow whose
\* weekday has no record is demanda_base rounded.
C12_FactorEsCocienteSiHayBase ==
    \A i \in LlamadasFormula : \A dia \in 0..6 :
        LET c == llamadas[i]
            base == c.locales.demanda_base
            factor == c.locales.factor_dia[dia]
            observado == RegistrosDelDia(c.ventas, dia) # {}
        IN /\ (observado /\ RatIsPos(base)) =>
                  RatIgual(RatMul(factor, base), PromedioDelDia(c.ventas, dia))
           /\ (~ observado \/ ~ RatIsPos(base)) => RatIgual(factor, RatOfInt(1))
           /\ (~ observado /\ dia = ((c.ahora \div 24) + 1) % 7) =>
                  c.resultado.demanda_manana = RoundHalfEven(base)

\* five weekly records of quantities 2, 3, 4, 1, 2: the factor of their
\* weekday times demanda_base is 12 / 5, the factor of tomorrow's weekday,
\* which has no record, is 1, and tomorrow's forecast is 2
C12_Witness ==
    \E i \in LlamadasFormula :
        LET c == llamadas[i]
            dia == c.ventas[1].fecha_venta % 7
            manana == ((c.ahora \div 24) + 1) % 7
        IN /\ Len(c.ventas) = 5
           /\ Cardinality(RegistrosDelDia(c.ventas, dia)) = 5
           /\ ~ TodasDe(c.ventas, c.ventas[1].cantidad_vendida)
           /\ RatIgual(RatMul(c.locales.factor_dia[dia], c.locales.demanda_base),
                       RatOfFrac(12, 5))
           /\ ~ RatIgual(c.locales.factor_dia[dia], RatOfInt(1))
           /\ manana # dia
           /\ RatIgual(c.locales.factor_dia[manana], RatOfInt(1))
           /\ c.resultado.demanda_manana = 2

(***************************************************************************)
(* Properties of the demands returned and stored.                          *)
(***************************************************************************)
\* C13: every demanda_manana and demanda_proxima_semana, in a stored
\* prediction of either writer and in a 200 response of the on-demand
\* handler, from the formula or from a model's forecast, is an integer
\* >= 0, also when the raw forecast is negative.
C13_DemandasNoNegativas ==
    /\ \A k \in DOMAIN t_predicciones :
          /\ t_predicciones[k].demanda_manana \in Nat
          /\ t_predicciones[k].demanda_proxima_semana \in Nat
    /\ \A i \in 1..Len(respuestas) :
          (respuestas[i].handler = "prediccion_demanda" /\ respuestas[i].status = 200) =>
              /\ respuestas[i].data.demanda_manana \in Nat
              /\ respuestas[i].data.demanda_proxima_semana \in Nat

\* both writers have stored a forecast whose first day is negative as 0:
\* the worker from the model of its bucket, the handler from the model it
\* trained; and the worker has stored a prediction of the formula
C13_Witness ==
    /\ \E k \in DOMAIN t_predicciones :
          /\ origen[k] = [via |-> "lote", algoritmo |-> "FORECAST"]
          /\ s3[<<BUCKET_MODELOS, k[1], k[2][1]>>].forecast[1] < 0
          /\ t_predicciones[k].demanda_manana = 0
    /\ \E k \in DOMAIN t_predicciones :
          /\ origen[k].via = "prediccion_demanda"
          /\ s3[<<S3_BUCKET, k[1], k[2][1]>>].forecast[1] < 0
          /\ t_predicciones[k].demanda_manana = 0
    /\ \E k \in DOMAIN t_predicciones :
          /\ origen[k] = [via |-> "lote", algoritmo |-> "FORMULA"]
          /\ t_predicciones[k].demanda_manana > 0
    /\ \E i \in 1..Len(respuestas) :
          /\ respuestas[i].handler = "prediccion_demanda"
          /\ respuestas[i].status = 200
          /\ respuestas[i].data.demanda_manana = 0

(***************************************************************************)
(* Properties of the daily series.                                         *)
(***************************************************************************)
\* the calls of SpecSerie
LlamadasSerie == {i \in 1..Len(llamadas) : "dataset" \in DOMAIN llamadas[i]}

\* sum of the quantities of the records sold on the days of D
RECURSIVE CantidadEnDias(_, _, _)
CantidadEnDias(ventas, D, i) ==
    IF i = 0 THEN 0
    ELSE (IF ventas[i].fecha_venta \in D THEN ventas[i].cantidad_vendida ELSE 0)
         + CantidadEnDias(ventas, D, i - 1)

\* sum of the entries of a series whose moments fall on the days d1..d2
RECURSIVE TotalSerie(_, _, _)
TotalSerie(serie, d1, d2) ==
    IF d2 < d1 THEN 0
    ELSE LET suyos == {f \in DOMAIN serie : f \div 24 = d2}
         IN (IF suyos = {} THEN 0 ELSE serie[CHOOSE f \in suyos : TRUE])
            + TotalSerie(serie, d1, d2 - 1)

\* C14: for a non-empty list of sales whose dates go from d1 to d2,
\* preparar_dataset_holt_winters returns a series of exactly d2 - d1 + 1
\* entries, one for each calendar day of d1..d2, whose entry is the sum of
\* the quantities sold that day and 0 for a day without sales, so that the
\* series adds up to the quantities of the list; for the empty list it
\* returns None.
C14_SerieDiariaCompleta ==
    \A i \in LlamadasSerie :
        LET ventas == llamadas[i].ventas
            dataset == llamadas[i].dataset
            dias == {ventas[k].fecha_venta : k \in 1..Len(ventas)}
            d1 == CHOOSE d \in dias : \A e \in dias : d <= e
            d2 == CHOOSE d \in dias : \A e \in dias : d >= e
        IN IF ventas = <<>> THEN dataset = NoItem
           ELSE /\ DOMAIN dataset = {"serie"}
                /\ Cardinality(DOMAIN dataset.serie) = (d2 - d1) + 1
                /\ \A d \in d1..d2 :
                      /\ Cardinality({f \in DOMAIN dataset.serie : f \div 24 = d}) = 1
                      /\ \A f \in DOMAIN dataset.serie :
                            f \div 24 = d =>
                               dataset.serie[f] = CantidadEnDias(ventas, {d}, Len(ventas))
                /\ \A f \in DOMAIN dataset.serie : f \div 24 \in d1..d2
                /\ TotalSerie(dataset.serie, d1, d2)
                      = CantidadEnDias(ventas, d1..d2, Len(ventas))

\* three sales given out of date order, two of them on the last day and
\* none on the days between: four entries, 0 in the middle, the sum at the end
C14_Witness ==
    \E i \in LlamadasSerie :
        LET ventas == llamadas[i].ventas
            dataset == llamadas[i].dataset
        IN /\ Len(ventas) = 3
           /\ ventas[1].fecha_venta = DiaInicial
           /\ ventas[2].fecha_venta = DiaInicial - 3
           /\ ventas[3].fecha_venta = DiaInicial
           /\ Cardinality(DOMAIN dataset.serie) = 4
           /\ dataset.serie[(DiaInicial - 1) * 24] = 0
           /\ dataset.serie[DiaInicial * 24]
                 = ventas[1].cantidad_vendida + ventas[3].cantidad_vendida
           /\ ventas[1].cantidad_vendida # ventas[3].cantidad_vendida

ProcesaProducto ==
    /\ worker.pc = "producto"
    /\ Len(worker'.bitacora) = Len(worker.bitacora) + 1

MensajeLote(tenant_id, codigo_producto, entregado) ==
    [tipo |-> "stockBajoManana", severity |-> "CRITICAL", via |-> "lote",
     tenant_id |-> tenant_id, codigo_producto |-> codigo_producto,
     entregado |-> entregado]

\* the message of the on-demand handler for a product, by severity
MensajeDemanda(tenant_id, codigo_producto, severity, entregado) ==
    [tipo |-> IF severity = "CRITICAL" THEN "stockBajoManana" ELSE "stockBajoProximaSemana",
     severity |-> severity, via |-> "prediccion_demanda",
     tenant_id |-> tenant_id, codigo_producto |-> codigo_producto,
     entregado |-> entregado]

\* C17 as stated: whatever went through to the alerts topic, from either
\* path, is a CRITICAL alert.
C17_SoloCriticas ==
    \A mensaje \in BagToSet(sns) :
        ("severity" \in DOMAIN mensaje /\ mensaje.entregado) => mensaje.severity = "CRITICAL"

\* C17 amended: the batch worker calls publish once for a predicted
\* product exactly when its stock is below tomorrow's demand, and not at
\* all otherwise; the on-demand handler calls publish, for a prediction it
\* generated, once with severity CRITICAL when the stock is below tomorrow's
\* demand, once with severity WARNING when it is not but is below next
\* week's demand, and not at all otherwise.
C17_CriticasYAvisosBajoDemanda ==
    [][/\ ProcesaProducto =>
            LET e == worker'.bitacora[Len(worker'.bitacora)]
            IN IF /\ e.resultado = "PREDICHO"
                  /\ e.prediccion.stock_snapshot < e.prediccion.demanda_manana
               THEN \E entregado \in BOOLEAN :
                      sns' = sns (+) SetToBag({MensajeLote(e.tenant_id, e.codigo_producto,
                                                           entregado)})
               ELSE sns' = sns
       /\ RespondeDemanda =>
            LET nueva == respuestas'[Len(respuestas')]
                stock == stock_del_producto(get_item_standard(t_productos,
                              nueva.tenant_id, nueva.codigo_producto))
                severity == IF nueva.status # 200 \/ nueva.cache # "MISS" THEN "-"
                            ELSE IF stock < nueva.data.demanda_manana THEN "CRITICAL"
                            ELSE IF stock < nueva.data.demanda_proxima_semana THEN "WARNING"
                            ELSE "-"
            IN IF severity = "-" THEN sns' = sns
               ELSE \E entregado \in BOOLEAN :
                      sns' = sns (+) SetToBag({MensajeDemanda(nueva.tenant_id,
                                                  nueva.codigo_producto, severity, entregado)})
    ]_vars

\* the worker predicted a product whose stock covers tomorrow but not the
\* week and called publish for nothing, and published for one whose stock
\* does not cover tomorrow; a WARNING of the handler went through
C17_Witness ==
    /\ worker.pc # "espera"
    /\ \E i, j \in 1..Len(worker.bitacora) :
          LET a == worker.bitacora[i]
              b == worker.bitacora[j]
          IN /\ a.resultado = "PREDICHO"
             /\ a.prediccion.stock_snapshot >= a.prediccion.demanda_manana
             /\ a.prediccion.stock_snapshot < a.prediccion.demanda_proxima_semana
             /\ \A entregado \in BOOLEAN :
                    ~ BagIn(MensajeLote(a.tenant_id, a.codigo_producto, entregado), sns)
             /\ b.resultado = "PREDICHO"
             /\ b.prediccion.stock_snapshot < b.prediccion.demanda_manana
             /\ BagIn(MensajeLote(b.tenant_id, b.codigo_producto, TRUE), sns)
    /\ BagIn(MensajeDemanda("T1", "PA", "WARNING", TRUE), sns)

\* the calls of publish that the step adds, and those among them that failed
LlamadasNuevas == sns' (-) sns

Fallidas(llamadas_sns) == {mensaje \in BagToSet(llamadas_sns) : ~ mensaje.entregado}

\* C18: a publish that fails is absorbed.  The step that made the call
\* made it once; in the batch worker the prediction is still written as
\* computed, the product is counted as processed and the loop goes on to
\* the next product or to the tenant's event, so that a run that returns
\* has handled every active product; on the on-demand path the request
\* still answers 200 and its prediction is still written.
C18_FalloDePublicacionAbsorbido ==
    /\ [][/\ (ProcesaProducto /\ Fallidas(LlamadasNuevas) # {}) =>
                LET e == worker'.bitacora[Len(worker'.bitacora)]
                    clave == <<e.tenant_id, ClaveLote(e.codigo_producto)>>
                IN /\ BagCardinality(LlamadasNuevas) = 1
                   /\ e.resultado = "PREDICHO"
                   /\ worker'.pc \in {"producto", "evento"}
                   /\ worker'.estadisticas.total_productos
                         = worker.estadisticas.total_productos + 1
                   /\ worker'.estadisticas.productos_omitidos
                         = worker.estadisticas.productos_omitidos
                   /\ \/ t_predicciones' = t_predicciones
                      \/ t_predicciones' = put_item_standard(t_predicciones, e.tenant_id,
                            ClaveLote(e.codigo_producto), DatosPrediccion(e.prediccion), TRUE)
                   /\ DOMAIN t_predicciones \subseteq DOMAIN t_predicciones'
          /\ (RespondeDemanda /\ Fallidas(LlamadasNuevas) # {}) =>
                LET nueva == respuestas'[Len(respuestas')]
                IN /\ BagCardinality(LlamadasNuevas) = 1
                   /\ nueva.status = 200
                   /\ nueva.cache = "MISS"
                   /\ ws' = ws + 1
                   /\ DOMAIN t_predicciones \subseteq DOMAIN t_predicciones'
         ]_vars
    /\ [](worker.pc = "hecho" =>
            \A i \in 1..Len(worker.records) : \A p \in ActivosDe(worker.records[i]) :
               \E j \in Anotados(i, {"FALLO", "OMITIDO", "PREDICHO"}) :
                  worker.bitacora[j].codigo_producto = p)

\* the publish for the first product of the run failed: its prediction is
\* in the table, the products after it and the next tenant were handled and
\* the run returned; a publish of the handler failed and it answered 200
C18_Witness ==
    /\ worker.pc = "hecho"
    /\ worker.records = <<"T1", "T2">>
    /\ BagIn(MensajeLote("T1", "PA", FALSE), sns)
    /\ ~ BagIn(MensajeLote("T1", "PA", TRUE), sns)
    /\ <<"T1", ClaveLote("PA")>> \in DOMAIN t_predicciones
    /\ \E i, j \in 1..Len(worker.bitacora) :
          /\ worker.bitacora[i].tenant_id = "T1"
          /\ worker.bitacora[i].codigo_producto = "PC"
          /\ worker.bitacora[i].resultado = "PREDICHO"
          /\ worker.bitacora[j].tenant_id = "T2"
          /\ worker.bitacora[j].resultado = "PREDICHO"
    /\ \E severity \in {"CRITICAL", "WARNING"} :
          /\ BagIn(MensajeDemanda("T1", "PA", severity, FALSE), sns)
          /\ ~ BagIn(MensajeDemanda("T1", "PA", severity, TRUE), sns)
    /\ \E i \in 1..Len(respuestas) :
          /\ respuestas[i].handler = "prediccion_demanda"
          /\ respuestas[i].status = 200
          /\ respuestas[i].cache = "MISS"

(***************************************************************************)
(* Properties of the orchestrator.                                         *)
(***************************************************************************)
\* the step is one invocation of the orchestrator
PasaOrquestador ==
    /\ Len(respuestas') = Len(respuestas) + 1
    /\ respuestas'[Len(respuestas')].handler = "orquestar_predicciones_diarias"

\* the codes of the stores whose state is ACTIVA, in key order
TiendasActivasEnOrden ==
    SelectSeq(OrdenTiendas,
        LAMBDA c : /\ <<SAAI, c>> \in DOMAIN t_tiendas
                   /\ Get(t_tiendas[<<SAAI, c>>], "estado", "None") = "ACTIVA")

\* C19: one pass of the orchestrator adds to the queue exactly one message
\* for each store whose state is ACTIVA, in key order, none for any other
\* store, and answers with tiendas_encoladas equal to the number of
\* messages it added.
C19_UnMensajePorTiendaActiva ==
    [][PasaOrquestador =>
        /\ sqs' = sqs \o [i \in 1..Len(TiendasActivasEnOrden) |->
                            [tenant_id |-> TiendasActivasEnOrden[i]]]
        /\ respuestas'[Len(respuestas')].status = 200
        /\ respuestas'[Len(respuestas')].data.tiendas_encoladas = Len(sqs') - Len(sqs)]_vars

\* C20: a failure while listing the products of one tenant does not leave
\* the worker's handler as an exception: the invocation goes on with the
\* tenant's products, with the next record or with the return.
C20_NingunFalloEscapa ==
    [][worker.pc = "registro" => worker'.pc \in {"registro", "producto", "retorno"}]_vars

(***************************************************************************)
(* Properties of the worker's writes and counters.                         *)
(***************************************************************************)
\* C21: a product step of the batch worker after which no prediction of
\* the product is stored counts the product in productos_omitidos and not
\* in total_productos, and the loop goes on with the next product.
C21_EscrituraFallidaContada ==
    [][(/\ ProcesaProducto
        /\ <<worker.records[worker.r], ClaveLote(worker.productos[worker.p])>>
              \notin DOMAIN t_predicciones')
       => /\ worker'.estadisticas.productos_omitidos =
                worker.estadisticas.productos_omitidos + 1
          /\ worker'.estadisticas.total_productos =
                worker.estadisticas.total_productos
          /\ worker'.pc \in {"producto", "evento"}]_vars

\* C22: when a training stores or replaces the model of a (tenant,
\* product), both forecasting paths load exactly that model for that
\* (tenant, product) from then on: the on-demand handler's loader and the
\* batch worker's loader return the blob just stored.
C22_ModeloIdaYVuelta ==
    [][\A k \in DOMAIN s3' :
          (k \notin DOMAIN s3 \/ s3'[k] # s3[k]) =>
             /\ cargar_modelo_s3(k[2], k[3])' = s3'[k]
             /\ cargar_modelo_s3_batch(k[2], k[3])' = s3'[k]]_vars

(***************************************************************************)
(* Properties of redelivery                                                *)
(***************************************************************************)
\* the item of the product in hand is overwritten during a redelivery
SobrescribeEnReentrega(clave) ==
    /\ ProcesaProducto
    /\ Get(worker, "entregas", 1) > 1
    /\ clave \in DOMAIN t_predicciones
    /\ clave \in DOMAIN t_predicciones'
    /\ t_predicciones'[clave] # t_predicciones[clave]

MismosValores(antes, despues) ==
    /\ despues.demanda_manana = antes.demanda_manana
    /\ despues.demanda_proxima_semana = antes.demanda_proxima_semana
    /\ despues.metodo = antes.metodo
    /\ despues.confianza = antes.confianza

\* the moment (UTC) at which a stored prediction was computed
CalculadaEn(item) == item.fecha_prediccion + PERU_UTC_OFFSET

\* obtener_ventas_historicas as it reads at the moment 'ahora'
VentasEnVentana(tenant_id, codigo_producto, ahora) ==
    LET ventas == SelectSeq(query_by_tenant(t_ventas[tenant_id]),
                    LAMBDA venta :
                        LET fecha_venta == Get(venta, "fecha_venta", FECHA_AUSENTE)
                        IN /\ fecha_venta # FECHA_AUSENTE
                           /\ \/ fecha_venta = FECHA_INVALIDA
                              \/ fecha_venta * 24 >= ahora - DIAS_HISTORICO * 24)
    IN Recoger(ventas, codigo_producto, "fecha_venta", Len(ventas))

ClaveEnCurso == <<worker.records[worker.r], ClaveLote(worker.productos[worker.p])>>

\* C23 (as stated): processing the same tenant work unit twice, with no
\* change to sales, stock or models in between, leaves every product's stored
\* demand values, method and confidence as the first processing left them
C23_DuplicadoInofensivo ==
    [][SobrescribeEnReentrega(ClaveEnCurso) =>
          MismosValores(t_predicciones[ClaveEnCurso], t_predicciones'[ClaveEnCurso])]_vars

\* C23 (amended): the same holds when the redelivery is processed on the same
\* calendar day as the first delivery and reads the same sales in its 90-day
\* window
C23_DuplicadoInofensivoMismoDia ==
    [][(/\ SobrescribeEnReentrega(ClaveEnCurso)
        /\ FechaLocal(CalculadaEn(t_predicciones[ClaveEnCurso])) = FechaLocal(reloj)
        /\ VentasEnVentana(worker.records[worker.r], worker.productos[worker.p],
                           CalculadaEn(t_predicciones[ClaveEnCurso]))
             = VentasEnVentana(worker.records[worker.r], worker.productos[worker.p], reloj))
       => MismosValores(t_predicciones[ClaveEnCurso], t_predicciones'[ClaveEnCurso])]_vars

\* a redelivery processed on the day of the first delivery has overwritten
\* the prediction the first delivery stored
C23_Witness ==
    /\ Get(worker, "entregas", 1) > 1
    /\ worker.pc = "hecho"
    /\ \E i \in 1..Len(worker.bitacora) :
          LET e == worker.bitacora[i]
              clave == <<e.tenant_id, ClaveLote(e.codigo_producto)>>
          IN /\ e.resultado = "PREDICHO"
             /\ clave \in DOMAIN t_predicciones
             /\ t_predicciones[clave].created_at = reloj
             /\ reloj > RelojInicial
             /\ FechaLocal(reloj) = FechaLocal(RelojInicial)

(***************************************************************************)
(* Properties of concurrent invocations of the worker                      *)
(***************************************************************************)
\* the entries of an invocation's log that hold a prediction for the key
PrediccionesDe(w, clave) ==
    {w.bitacora[i].prediccion : i \in
        {j \in 1..Len(Get(w, "bitacora", <<>>)) :
            /\ w.bitacora[j].resultado = "PREDICHO"
            /\ <<w.bitacora[j].tenant_id, ClaveLote(w.bitacora[j].codigo_producto)>> = clave}}

\* the stored item is, field by field, what guardar_prediccion builds from
\* the prediction and one stamp of put_item_standard
PayloadCompleto(item, prediccion) ==
    /\ item.demanda_manana = prediccion.demanda_manana
    /\ item.demanda_proxima_semana = prediccion.demanda_proxima_semana
    /\ item.metodo = prediccion.metodo
    /\ item.confianza = prediccion.confianza
    /\ item.fecha_prediccion = prediccion.fecha_prediccion
    /\ item.estado = "ACTIVO"
    /\ item.updated_at = item.created_at
    /\ item.ttl = item.created_at + PREDICCIONES_TTL_HORAS
    /\ DOMAIN item = {"demanda_manana", "demanda_proxima_semana", "metodo", "confianza",
                      "fecha_prediccion", "ttl", "estado", "created_at", "updated_at"}

AmbasTerminadas ==
    /\ worker.pc \in {"hecho", "error"}
    /\ otra.pc \in {"hecho", "error"}

\* the writes both invocations have finished with leave, under every key,
\* the whole payload of one of them, and every accepted write left an item
SinMezclaNiPerdida ==
    AmbasTerminadas =>
        /\ \A k \in DOMAIN t_predicciones :
              \E prediccion \in PrediccionesDe(worker, k) \cup PrediccionesDe(otra, k) :
                  PayloadCompleto(t_predicciones[k], prediccion)
        /\ \A k \in DOMAIN origen : k \in DOMAIN t_predicciones

\* a write replaces the item under its key with the writer's payload, whatever
\* was there, and touches no other key
EscrituraEntera ==
    t_predicciones' # t_predicciones =>
        /\ worker.pc = "guardar"
        /\ ClaveEnCurso \in DOMAIN t_predicciones'
        /\ t_predicciones'[ClaveEnCurso] = Sellado(DatosPrediccion(worker.calculo.prediccion))
        /\ \A k \in DOMAIN t_predicciones :
              /\ k \in DOMAIN t_predicciones'
              /\ k # ClaveEnCurso => t_predicciones'[k] = t_predicciones[k]

\* C24: when two worker invocations for the same tenant run concurrently,
\* under every interleaving the prediction finally stored for each product is
\* the complete payload written by one of the two (the last writer), never a
\* mixture of fields from both and never a lost record
C24_UltimoEscritorGana ==
    /\ []SinMezclaNiPerdida
    /\ [][EscrituraEntera]_vars

\* both invocations have predicted the same product of the same tenant at
\* different moments, and an item is stored for it
C24_Witness ==
    /\ worker.pc = "hecho"
    /\ otra.pc = "hecho"
    /\ <<"T1", ClaveLote("PA")>> \in DOMAIN t_predicciones
    /\ \E a \in PrediccionesDe(worker, <<"T1", ClaveLote("PA")>>),
          b \in PrediccionesDe(otra, <<"T1", ClaveLote("PA")>>) :
          /\ a.fecha_prediccion # b.fecha_prediccion
          /\ t_predicciones[<<"T1", ClaveLote("PA")>>].fecha_prediccion = a.fecha_prediccion
          /\ t_predicciones[<<"T1", ClaveLote("PA")>>].created_at > RelojInicial

(***************************************************************************)
(* Properties of the authorizer                                            *)
(***************************************************************************)
\* the step is an authorization that returned Allow
Permitido ==
    /\ Len(respuestas') = Len(respuestas) + 1
    /\ respuestas'[Len(respuestas')].handler = "authorizer"
    /\ respuestas'[Len(respuestas')].effect = "Allow"

\* the token is signed with the secret and is the unexpired, ACTIVO token
\* stored for its user in the table of its role
TokenVigente(token) ==
    /\ token # NoItem
    /\ token.firma = JWT_SECRET
    /\ ClaveToken(token.tenant_id, token.codigo_usuario, token.rol) \in DOMAIN t_tokens
    /\ LET token_data == t_tokens[ClaveToken(token.tenant_id, token.codigo_usuario,
                                             token.rol)]
       IN /\ token_data.token = token
          /\ token_data.estado = "ACTIVO"
          /\ reloj <= token_data.expira_en

\* C25: the authorizer returns Allow only when the token passes signature
\* verification, equals the token stored for (tenant, user) in the role's
\* table, and the stored record is ACTIVO and unexpired; once the record is
\* INACTIVO every request bearing the token is denied
C25_AllowSoloTokenVigente ==
    [][Permitido => TokenVigente(respuestas'[Len(respuestas')].token)]_vars

(***************************************************************************)
(* Properties of the stock                                                 *)
(***************************************************************************)
\* the quantity of a product over the lines of a sale
RECURSIVE CantidadVendida(_, _, _)
CantidadVendida(productos, codigo_producto, i) ==
    IF i = 0 THEN 0
    ELSE (IF productos[i].codigo_producto = codigo_producto
          THEN productos[i].cantidad ELSE 0)
         + CantidadVendida(productos, codigo_producto, i - 1)

\* the step has stored a sale of the tenant
VentaGuardada(tenant_id) == Len(t_ventas'[tenant_id]) = Len(t_ventas[tenant_id]) + 1

C27_CacheAntesDeCalcular ==
    [][(/\ ProcesaProducto
        /\ verificar_cache(worker.records[worker.r], worker.productos[worker.p]) # NoItem)
       => /\ worker'.bitacora[Len(worker'.bitacora)].con_modelo = FALSE
          /\ worker'.bitacora[Len(worker'.bitacora)].algoritmo = "-"]_vars

(***************************************************************************)
(* Properties of the training gate                                         *)
(***************************************************************************)
\* the blob stored for the key is new or has changed
BlobEscrito(k) == k \notin DOMAIN s3 \/ s3'[k] # s3[k]

\* fewer than 30 sales records in the window, or a daily series of fewer
\* than 30 entries
DatosInsuficientes(ventas) ==
    \/ Len(ventas) < 30
    \/ /\ \A i \in 1..Len(ventas) : ventas[i].fecha_venta # FECHA_INVALIDA
       /\ LargoSerie(ventas) < 30

\* the step is a request on demand that found neither a cached entry nor a
\* stored model for a product without data enough
DemandaSinDatos ==
    /\ Len(respuestas') = Len(respuestas) + 1
    /\ respuestas'[Len(respuestas')].handler = "prediccion_demanda"
    /\ respuestas'[Len(respuestas')].cache = "MISS"
    /\ cargar_modelo_s3(respuestas'[Len(respuestas')].tenant_id,
                        respuestas'[Len(respuestas')].codigo_producto) = NoItem
    /\ DatosInsuficientes(obtener_ventas_historicas(
            respuestas'[Len(respuestas')].tenant_id,
            respuestas'[Len(respuestas')].codigo_producto, DIAS_HISTORICO))

\* C28: no model is fitted or stored for a product with fewer than 30 sales
\* records or a gap-filled daily series of fewer than 30 entries: the blobs
\* stored for it stay as they were, and the request on demand gets the
\* insufficient-data answer
C28_PuertaDeEntrenamiento ==
    [][/\ \A k \in DOMAIN s3' :
            BlobEscrito(k) =>
               ~ DatosInsuficientes(obtener_ventas_historicas(k[2], k[3], DIAS_HISTORICO))
       /\ DemandaSinDatos =>
            /\ respuestas'[Len(respuestas')].status = 400
            /\ s3' = s3]_vars

\* a nightly run has trained a product and refused others, the product with
\* thirty sales on fifteen days among them, and a request on demand for that
\* product was refused too
C28_Witness ==
    /\ \E i \in 1..Len(respuestas) :
          /\ respuestas[i].handler = "entrenar_modelos"
          /\ respuestas[i].status = 200
          /\ respuestas[i].body.modelos_entrenados > 0
          /\ respuestas[i].body.modelos_fallidos > 0
    /\ \E i \in 1..Len(respuestas) :
          /\ respuestas[i].handler = "prediccion_demanda"
          /\ respuestas[i].tenant_id = "T2"
          /\ respuestas[i].codigo_producto = "PC"
          /\ respuestas[i].status = 400
    /\ <<S3_BUCKET, "T2", "PC">> \notin DOMAIN s3
    /\ <<S3_BUCKET, "T2", "PA">> \in DOMAIN s3

(***************************************************************************)
(* Properties of the worker's statistics                                   *)
(***************************************************************************)
\* the entries the log holds for a product of the record in hand
EntradasDe(codigo_producto) ==
    {i \in 1..Len(worker.bitacora) :
        /\ worker.bitacora[i].registro = worker.r
        /\ worker.bitacora[i].codigo_producto = codigo_producto}

\* C29: when the products of a tenant with a non-empty list have all been
\* processed, total_productos + productos_omitidos is the number of products
\* listed, productos_con_ia + productos_con_formula is total_productos,
\* alertas_generadas is at most total_productos, and every product was
\* counted exactly once
C29_ContabilidadDelLote ==
    worker.pc = "evento" =>
        /\ worker.estadisticas.total_productos + worker.estadisticas.productos_omitidos
              = Len(worker.productos)
        /\ worker.estadisticas.productos_con_ia + worker.estadisticas.productos_con_formula
              = worker.estadisticas.total_productos
        /\ worker.estadisticas.alertas_generadas <= worker.estadisticas.total_productos
        /\ \A j \in 1..Len(worker.productos) :
              Cardinality(EntradasDe(worker.productos[j])) = 1
        /\ worker.estadisticas.total_productos =
              Cardinality({i \in 1..Len(worker.bitacora) :
                              /\ worker.bitacora[i].registro = worker.r
                              /\ worker.bitacora[i].resultado = "PREDICHO"})

\* a tenant's products are done: some predicted by the model, some by the
\* formula, some omitted, one of them with an alert
C29_Witness ==
    /\ worker.pc = "evento"
    /\ worker.estadisticas.productos_con_ia > 0
    /\ worker.estadisticas.productos_con_formula > 0
    /\ worker.estadisticas.productos_omitidos > 1
    /\ worker.estadisticas.alertas_generadas > 0


(***************************************************************************)
(* Properties of the date in the cache key                                 *)
(***************************************************************************)
\* the calendar date, in Peru, on which a stored item was written
FechaDeEscritura(item) == (item.created_at - PERU_UTC_OFFSET) \div 24

\* the entries of the table that the on-demand handler cached
EntradasDeCache ==
    {k \in DOMAIN t_predicciones :
        k \in DOMAIN origen /\ origen[k].via = "prediccion_demanda"}

\* every cached entry is stored under the date on which it was written
CacheBajoSuFecha ==
    \A k \in EntradasDeCache : k[2][2] = FechaDeEscritura(t_predicciones[k])

\* a hit returns the values of an entry of the same tenant and product that
\* was written on the calendar date of the request
HitDelMismoDia ==
    (RespondeDemanda /\ respuestas'[Len(respuestas')].cache = "HIT") =>
        \E k \in DOMAIN t_predicciones :
            /\ k[1] = respuestas'[Len(respuestas')].tenant_id
            /\ t_predicciones[k].codigo_producto
                  = respuestas'[Len(respuestas')].codigo_producto
            /\ FechaDeEscritura(t_predicciones[k]) = (reloj - PERU_UTC_OFFSET) \div 24
            /\ respuestas'[Len(respuestas')].data.demanda_manana
                  = t_predicciones[k].demanda_manana
            /\ respuestas'[Len(respuestas')].data.demanda_proxima_semana
                  = t_predicciones[k].demanda_proxima_semana

\* C30: a prediction cached on one calendar date in Peru is never the answer
\* of a cache hit on another date, whether its TTL has passed or not and
\* whether the store still holds it or not: every cached entry sits under the
\* date it was written on, and a hit is served from an entry written today
C30_HitSoloDelMismoDia == /\ []CacheBajoSuFecha /\ [][HitDelMismoDia]_vars

\* a prediction was cached on one date; on the next date, with that entry
\* still stored, the same request missed, and its repetition was a hit
C30_Witness ==
    \E i, j, l \in 1..Len(respuestas) :
        /\ i < j /\ j < l
        /\ MismaConsulta(respuestas[j], respuestas[l])
        /\ respuestas[i].handler = "prediccion_demanda"
        /\ respuestas[i].tenant_id = respuestas[j].tenant_id
        /\ respuestas[i].codigo_producto = respuestas[j].codigo_producto
        /\ respuestas[i].fecha # respuestas[j].fecha
        /\ respuestas[i].status = 200 /\ respuestas[i].cache = "MISS"
        /\ respuestas[j].status = 200 /\ respuestas[j].cache = "MISS"
        /\ respuestas[l].cache = "HIT"
        /\ EntradaViva(t_predicciones, respuestas[i].tenant_id,
                       respuestas[i].codigo_producto, respuestas[i].fecha)

====
